---- MODULE Spec2Model ----
(***************************************************************************)
(* A model of nc_check (netcdf-cf-coercer): the range compressor, the axis *)
(* classifier, the heuristic metadata validator, the metadata fixer and    *)
(* the coverage checks, the check entry points and the command line, each  *)
(* translated from the Python source.                                      *)
(*                                                                         *)
(* Every component is a pure function of its input, so each has its own    *)
(* specification: Init draws the input from bounded sets and one action    *)
(* per operation applies the operation and records its result.  The        *)
(* variables of the components a specification does not exercise stay at   *)
(* their idle values.                                                      *)
(***************************************************************************)
EXTENDS Integers, Sequences, FiniteSets, TLC

VARIABLES
    pc,         \* position of the caller: "input" before the call, then the operation's name
    indices,    \* argument of _indices_to_ranges: a list of integers
    ranges,     \* its return value: a list of (start, end) pairs
    ds,         \* the dataset handed to the classifier, the validator and the fixer
    dim,        \* argument of guess_axis_for_dim: a dimension name
    axis,       \* its return value: the axis type of the AxisGuess, "none" for None
    out,        \* the dataset make_dataset_compliant returned
    issues,     \* the issues dict heuristic_check_dataset returned
    da,         \* the data variable handed to the coverage checks, with its axes
    report,     \* the report the coverage checks returned
    call,       \* the arguments of the last call of a check entry point
    log,        \* the checkers that call invoked, in order
    raised,     \* the type of the exception the call raised, "" for none
    argv,       \* the command line handed to run_check: a list of texts
    exit_status \* the exit status run_check returned or exited with, -1 before

rangeVars == <<indices, ranges>>
metaVars == <<ds, dim, axis, out, issues>>
coverVars == <<da, report>>
callVars == <<call, log, raised, argv, exit_status>>
vars == <<pc, indices, ranges, ds, dim, axis, out, issues, da, report, call, log, raised, argv,
          exit_status>>

----------------------------------------------------------------------------
(* General helpers.                                                        *)

SeqRange(s) == {s[i] : i \in DOMAIN s}

\* All sequences over S of length 0..n.
SeqsUpTo(S, n) == UNION {[1..k -> S] : k \in 0..n}

----------------------------------------------------------------------------
(* Range compressor: ocean.py _indices_to_ranges.                          *)

\* Bounds of the generated index lists.
MaxIdx == 4
MaxLen == 3

\* The list of spec.md section 8, in order and shuffled.
ExampleIndices == {<<0, 1, 2, 5, 6, 9>>, <<9, 5, 0, 6, 2, 1>>}

RECURSIVE InsertSorted(_, _)
InsertSorted(x, s) ==
    IF s = <<>> THEN <<x>>
    ELSE IF x < Head(s) THEN <<x>> \o s
    ELSE <<Head(s)>> \o InsertSorted(x, Tail(s))

\* A mutant of sorted: the list is scanned in the order given.
sorted_unsorted(s) == s

\* Python's sorted() on a list of integers: ascending, repeats kept.
RECURSIVE sorted(_)
sorted(s) ==
    IF s = <<>> THEN <<>> ELSE InsertSorted(s[Len(s)], sorted(SubSeq(s, 1, Len(s) - 1)))

\* The for loop of _indices_to_ranges over ordered[1:], with its locals.
RECURSIVE ScanRanges(_, _, _, _)
ScanRanges(rest, start, end, acc) ==
    IF rest = <<>> THEN Append(acc, <<start, end>>)
    ELSE LET idx == Head(rest)
         IN  IF idx = end + 1
             THEN ScanRanges(Tail(rest), start, idx, acc)
             ELSE ScanRanges(Tail(rest), idx, idx, Append(acc, <<start, end>>))

indices_to_ranges(ixs) ==
    IF ixs = <<>> THEN <<>>
    ELSE LET ordered == sorted(ixs)
         IN  ScanRanges(Tail(ordered), ordered[1], ordered[1], <<>>)

----------------------------------------------------------------------------
(* Text.  A Python str is a sequence of one-character strings, so that     *)
(* lower(), strip() and split() are computed and "Units" differs from      *)
(* "units".                                                                *)

UpperChars == <<"A", "B", "C", "D", "E", "F", "G", "H", "I", "J", "K", "L", "M", "N", "O", "P", "Q", "R", "S", "T", "U", "V", "W", "X", "Y", "Z">>
LowerChars == <<"a", "b", "c", "d", "e", "f", "g", "h", "i", "j", "k", "l", "m", "n", "o", "p", "q", "r", "s", "t", "u", "v", "w", "x", "y", "z">>
Whitespace == {" ", "\t", "\n"}

lower_char(c) ==
    IF \E i \in DOMAIN UpperChars : UpperChars[i] = c
    THEN LowerChars[CHOOSE i \in DOMAIN UpperChars : UpperChars[i] = c]
    ELSE c

upper_char(c) ==
    IF \E i \in DOMAIN LowerChars : LowerChars[i] = c
    THEN UpperChars[CHOOSE i \in DOMAIN LowerChars : LowerChars[i] = c]
    ELSE c

\* str.lower() and str.upper()
lower(s) == [i \in DOMAIN s |-> lower_char(s[i])]
upper(s) == [i \in DOMAIN s |-> upper_char(s[i])]

RECURSIVE lstrip(_)
lstrip(s) == IF s # <<>> /\ Head(s) \in Whitespace THEN lstrip(Tail(s)) ELSE s

RECURSIVE rstrip(_)
rstrip(s) ==
    IF s # <<>> /\ s[Len(s)] \in Whitespace THEN rstrip(SubSeq(s, 1, Len(s) - 1)) ELSE s

\* str.strip()
strip(s) == lstrip(rstrip(s))

s_time == <<"t", "i", "m", "e">>
s_t == <<"t">>
s_lat == <<"l", "a", "t">>
s_latitude == <<"l", "a", "t", "i", "t", "u", "d", "e">>
s_y == <<"y">>
s_lon == <<"l", "o", "n">>
s_longitude == <<"l", "o", "n", "g", "i", "t", "u", "d", "e">>
s_x == <<"x">>
s_degrees_north == <<"d", "e", "g", "r", "e", "e", "s", "_", "n", "o", "r", "t", "h">>
s_degrees_east == <<"d", "e", "g", "r", "e", "e", "s", "_", "e", "a", "s", "t">>
s_standard_name == <<"s", "t", "a", "n", "d", "a", "r", "d", "_", "n", "a", "m", "e">>
s_long_name == <<"l", "o", "n", "g", "_", "n", "a", "m", "e">>
s_units == <<"u", "n", "i", "t", "s">>
s_axis == <<"a", "x", "i", "s">>
s_Y == <<"Y">>
s_X == <<"X">>
s_T == <<"T">>
s_K == <<"K">>

\* Spellings used as inputs.
s_Time == <<"T", "i", "m", "e">>
s_LAT == <<"L", "A", "T">>
s_lon_padded == <<" ", "l", "o", "n", " ">>
s_xcoord == <<"x", "c", "o", "o", "r", "d">>
s_ycoord == <<"y", "c", "o", "o", "r", "d">>
s_station == <<"s", "t", "a", "t", "i", "o", "n">>
s_Latitude == <<"L", "a", "t", "i", "t", "u", "d", "e">>
s_Degrees_East == <<"D", "e", "g", "r", "e", "e", "s", "_", "E", "a", "s", "t">>
s_time_padded == <<"t", "i", "m", "e", " ">>

----------------------------------------------------------------------------
(* Values, dicts and datasets.                                             *)

\* An attribute value: a str, a number, or None (what dict.get returns for an
\* absent key).  One record shape, so that any two values compare.
Str(s) == [k |-> "str", s |-> s, n |-> 0]
Num(n) == [k |-> "num", s |-> <<>>, n |-> n]
NoneVal == [k |-> "none", s |-> <<>>, n |-> 0]

Digits == <<"0", "1", "2", "3", "4", "5", "6", "7", "8", "9">>

RECURSIVE nat_str(_)
nat_str(n) == IF n < 10 THEN <<Digits[n + 1]>> ELSE nat_str(n \div 10) \o <<Digits[(n % 10) + 1]>>

\* str(value)
py_str(v) ==
    CASE v.k = "str" -> v.s
      [] v.k = "num" -> IF v.n < 0 THEN <<"-">> \o nat_str(-v.n) ELSE nat_str(v.n)
      [] OTHER -> <<"N", "o", "n", "e">>

\* A dict is the sequence of its (key, value) pairs in insertion order.
DictKeys(d) == {d[i][1] : i \in DOMAIN d}
DictHas(d, key) == \E i \in DOMAIN d : d[i][1] = key
DictAt(d, key) == d[CHOOSE i \in DOMAIN d : d[i][1] = key][2]
\* d.get(key) and d.get(key, default)
DictGetOr(d, key, default) == IF DictHas(d, key) THEN DictAt(d, key) ELSE default
DictGet(d, key) == DictGetOr(d, key, NoneVal)
\* d[key] = value
DictSet(d, key, value) ==
    IF DictHas(d, key)
    THEN [i \in DOMAIN d |-> IF d[i][1] = key THEN <<key, value>> ELSE d[i]]
    ELSE Append(d, <<key, value>>)
\* d.pop(key, None)
DictPop(d, key) == SelectSeq(d, LAMBDA e : e[1] # key)

\* A variable of a dataset (coordinate or data variable).
Variable(dims, dtype, values, attrs, encoding) ==
    [dims |-> dims, dtype |-> dtype, values |-> values, attrs |-> attrs, encoding |-> encoding]

\* A dataset: dimension sizes, coordinates, data variables and global attributes,
\* each a dict in the dataset's order.
Dataset(sizes, coords, data_vars, attrs) ==
    [sizes |-> sizes, coords |-> coords, data_vars |-> data_vars, attrs |-> attrs]

EmptyDataset == Dataset(<<>>, <<>>, <<>>, <<>>)

\* ds.dims, in order
DimsOf(d) == [i \in DOMAIN d.sizes |-> d.sizes[i][1]]

----------------------------------------------------------------------------
(* Axis classifier: heuristic.py guess_axis_for_dim.                       *)

LAT_NAMES == {s_lat, s_latitude, s_y}
LON_NAMES == {s_lon, s_longitude, s_x}
TIME_NAMES == {s_time, s_t}

AXIS_NAME_SETS == <<(<<"time", TIME_NAMES>>), (<<"lat", LAT_NAMES>>), (<<"lon", LON_NAMES>>)>>

normalize_name(name) == lower(strip(name))

\* The first axis type, in the order of _AXIS_NAME_SETS, one of whose names is
\* among the given names.
axis_from_names(names) ==
    LET hits == {i \in DOMAIN AXIS_NAME_SETS : names \cap AXIS_NAME_SETS[i][2] # {}}
    IN  IF hits = {} THEN "none"
        ELSE AXIS_NAME_SETS[CHOOSE i \in hits : \A j \in hits : i <= j][1]

\* A mutant of axis_from_coord_attrs: the time test comes first.
axis_from_coord_attrs_time_first(coord) ==
    LET standard_name == normalize_name(py_str(DictGetOr(coord.attrs, s_standard_name, Str(<<>>))))
        units == normalize_name(py_str(DictGetOr(coord.attrs, s_units, Str(<<>>))))
    IN  IF standard_name = s_time THEN "time"
        ELSE IF standard_name = s_latitude \/ units = s_degrees_north THEN "lat"
        ELSE IF standard_name = s_longitude \/ units = s_degrees_east THEN "lon"
        ELSE "none"

axis_from_coord_attrs(coord) ==
    LET standard_name == normalize_name(py_str(DictGetOr(coord.attrs, s_standard_name, Str(<<>>))))
        units == normalize_name(py_str(DictGetOr(coord.attrs, s_units, Str(<<>>))))
    IN  IF standard_name = s_latitude \/ units = s_degrees_north THEN "lat"
        ELSE IF standard_name = s_longitude \/ units = s_degrees_east THEN "lon"
        ELSE IF standard_name = s_time THEN "time"
        ELSE "none"

\* The axis type of the AxisGuess returned, "none" when None is returned.  The
\* coordinate ds.coords.get(dim) carries the name dim.
guess_axis_for_dim(d, dm) ==
    LET dim_norm == normalize_name(dm)
        has_coord == DictHas(d.coords, dm)
        coord_name_norm == IF has_coord THEN normalize_name(dm) ELSE dim_norm
        by_name == axis_from_names({dim_norm, coord_name_norm})
    IN  IF by_name # "none" THEN by_name
        ELSE IF ~has_coord THEN "none"
        ELSE axis_from_coord_attrs(DictAt(d.coords, dm))

----------------------------------------------------------------------------
(* Heuristic validator: heuristic.py heuristic_check_dataset.              *)

s_coordinates == <<"c", "o", "o", "r", "d", "i", "n", "a", "t", "e", "s">>
s_bounds == <<"b", "o", "u", "n", "d", "s">>
s_grid_mapping == <<"g", "r", "i", "d", "_", "m", "a", "p", "p", "i", "n", "g">>
s_ancillary_variables == <<"a", "n", "c", "i", "l", "l", "a", "r", "y", "_", "v", "a", "r", "i", "a", "b", "l", "e", "s">>
s_cell_measures == <<"c", "e", "l", "l", "_", "m", "e", "a", "s", "u", "r", "e", "s">>
s_Conventions == <<"C", "o", "n", "v", "e", "n", "t", "i", "o", "n", "s">>
s_since == <<"s", "i", "n", "c", "e">>
s_CF_dash == <<"C", "F", "-">>

\* Array elements that are not finite numbers: NaN, +inf, -inf and NaT.
NaN == [k |-> "nan", s |-> <<>>, n |-> 0]
PosInf == [k |-> "inf", s |-> <<>>, n |-> 1]
NegInf == [k |-> "inf", s |-> <<>>, n |-> -1]
NaT == [k |-> "nat", s |-> <<>>, n |-> 0]

\* np.issubdtype(dtype, np.number): bool, str, object and datetime64 are not numbers.
is_numeric_dtype(dtype) == dtype \in {"int64", "float64"}

EXPECTED_COORD_ATTRS(axis_type) ==
    CASE axis_type = "lat" ->
            <<(<<s_standard_name, Str(s_latitude)>>), (<<s_long_name, Str(s_latitude)>>),
              (<<s_units, Str(s_degrees_north)>>), (<<s_axis, Str(s_Y)>>)>>
      [] axis_type = "lon" ->
            <<(<<s_standard_name, Str(s_longitude)>>), (<<s_long_name, Str(s_longitude)>>),
              (<<s_units, Str(s_degrees_east)>>), (<<s_axis, Str(s_X)>>)>>
      [] axis_type = "time" ->
            <<(<<s_standard_name, Str(s_time)>>), (<<s_axis, Str(s_T)>>)>>
      [] OTHER -> <<>>

expected_coord_attrs(axis_type) == EXPECTED_COORD_ATTRS(axis_type)

\* _AXIS_RANGE_SPECS: minimum and maximum per axis type.
LatMinimum == -90
LatMaximum == 90
LonMinimum == -180
LonMaximum == 360
HasRangeSpec(axis_type) == axis_type \in {"lat", "lon"}
RangeMinimum(axis_type) == IF axis_type = "lat" THEN LatMinimum ELSE LonMinimum
RangeMaximum(axis_type) == IF axis_type = "lat" THEN LatMaximum ELSE LonMaximum

\* A finding: _finding(...).  item is the tag before the colon and key the text
\* after it; count is current["out_of_range_count"], missing is
\* current["missing"]; convention is "" where the finding carries none; message
\* is kept for the findings of the external checker only, which have no item.
Finding(severity, item, key, current, expected) ==
    [severity |-> severity, item |-> item, key |-> key, current |-> current,
     expected |-> expected, count |-> 0, missing |-> <<>>, convention |-> "",
     message |-> <<>>]

\* The values as the sequence checks see them: [ok, floating, values].
\* A number array becomes a float array; a datetime or timedelta array without
\* NaT becomes its int64 nanoseconds; anything else gives None.
numeric_values(dtype, values) ==
    IF is_numeric_dtype(dtype) THEN [ok |-> TRUE, floating |-> TRUE, values |-> values]
    ELSE IF dtype \in {"datetime64", "timedelta64"}
    THEN IF \E i \in DOMAIN values : values[i] = NaT
         THEN [ok |-> FALSE, floating |-> FALSE, values |-> <<>>]
         ELSE [ok |-> TRUE, floating |-> FALSE, values |-> values]
    ELSE [ok |-> FALSE, floating |-> FALSE, values |-> <<>>]

\* A mutant of finite_values: nothing is filtered out.
finite_values_unfiltered(numeric) == numeric

\* _finite_values: a float array keeps its finite elements, None when none is left.
finite_values(numeric) ==
    IF ~numeric.floating THEN numeric
    ELSE LET finite == SelectSeq(numeric.values, LAMBDA v : v.k = "num")
         IN  [ok |-> finite # <<>>, floating |-> TRUE, values |-> finite]

\* A mutant of coord_sequence_findings: a sequence with equal neighbours counts
\* as monotonic.
coord_sequence_findings_nonstrict(values) ==
    LET not_unique == Cardinality(SeqRange(values)) # Len(values)
        increasing == \A i \in 1..(Len(values) - 1) : values[i + 1].n >= values[i].n
        decreasing == \A i \in 1..(Len(values) - 1) : values[i + 1].n <= values[i].n
    IN  (IF not_unique
         THEN <<Finding("WARN", "coord_not_unique", <<>>, NoneVal, NoneVal)>> ELSE <<>>)
        \o (IF increasing \/ decreasing THEN <<>>
            ELSE <<Finding("WARN", "coord_not_monotonic", <<>>, NoneVal, NoneVal)>>)

\* _coord_sequence_findings
coord_sequence_findings(values) ==
    LET not_unique == Cardinality(SeqRange(values)) # Len(values)
        increasing == \A i \in 1..(Len(values) - 1) : values[i + 1].n > values[i].n
        decreasing == \A i \in 1..(Len(values) - 1) : values[i + 1].n < values[i].n
    IN  (IF not_unique
         THEN <<Finding("WARN", "coord_not_unique", <<>>, NoneVal, NoneVal)>> ELSE <<>>)
        \o (IF increasing \/ decreasing THEN <<>>
            ELSE <<Finding("WARN", "coord_not_monotonic", <<>>, NoneVal, NoneVal)>>)

\* A mutant of coord_range_finding: the bounds themselves count as out of range.
coord_range_finding_strict(axis_type, values) ==
    IF ~HasRangeSpec(axis_type) THEN <<>>
    ELSE LET count == Cardinality({i \in DOMAIN values :
                          values[i].n <= RangeMinimum(axis_type)
                              \/ values[i].n >= RangeMaximum(axis_type)})
         IN  IF count = 0 THEN <<>>
             ELSE <<[Finding("ERROR", "coord_values_out_of_range", <<>>, NoneVal, NoneVal)
                        EXCEPT !.count = count]>>

\* _coord_range_finding, as a list of no or one finding.
coord_range_finding(axis_type, values) ==
    IF ~HasRangeSpec(axis_type) THEN <<>>
    ELSE LET count == Cardinality({i \in DOMAIN values :
                          values[i].n < RangeMinimum(axis_type)
                              \/ values[i].n > RangeMaximum(axis_type)})
         IN  IF count = 0 THEN <<>>
             ELSE <<[Finding("ERROR", "coord_values_out_of_range", <<>>, NoneVal, NoneVal)
                        EXCEPT !.count = count]>>

\* Coordinates of the model are 1-D (values.ndim = 1).
coordinate_value_findings(coord, axis_type) ==
    IF Len(coord.values) < 2 THEN <<>>
    ELSE LET numeric == numeric_values(coord.dtype, coord.values)
         IN  IF ~numeric.ok THEN <<>>
             ELSE LET finite == finite_values(numeric)
                  IN  IF ~finite.ok THEN <<>>
                      ELSE coord_sequence_findings(finite.values)
                               \o coord_range_finding(axis_type, finite.values)

\* str.split(): the maximal runs of non-whitespace characters.
RECURSIVE split_ws(_, _)
split_ws(s, token) ==
    IF s = <<>> THEN (IF token = <<>> THEN <<>> ELSE <<token>>)
    ELSE IF Head(s) \in Whitespace
    THEN (IF token = <<>> THEN <<>> ELSE <<token>>) \o split_ws(Tail(s), <<>>)
    ELSE split_ws(Tail(s), Append(token, Head(s)))

split(s) == split_ws(s, <<>>)

\* str.split(sep) for a one-character separator: empty parts are kept.
RECURSIVE split_on(_, _, _)
split_on(s, sep, part) ==
    IF s = <<>> THEN <<part>>
    ELSE IF Head(s) = sep THEN <<part>> \o split_on(Tail(s), sep, <<>>)
    ELSE split_on(Tail(s), sep, Append(part, Head(s)))

startswith(s, prefix) == Len(s) >= Len(prefix) /\ SubSeq(s, 1, Len(prefix)) = prefix
endswith(s, suffix) ==
    Len(s) >= Len(suffix) /\ SubSeq(s, Len(s) - Len(suffix) + 1, Len(s)) = suffix

\* Code point order of the characters the model's names use.
CharOrder == <<"\t", "\n", " ", "-", ".", "0", "1", "2", "3", "4", "5", "6", "7", "8", "9", ":">>
                 \o UpperChars \o <<"_">> \o LowerChars
ord(c) == CHOOSE i \in DOMAIN CharOrder : CharOrder[i] = c

\* a < b for two str
RECURSIVE str_less(_, _)
str_less(a, b) ==
    IF b = <<>> THEN FALSE
    ELSE IF a = <<>> THEN TRUE
    ELSE IF Head(a) = Head(b) THEN str_less(Tail(a), Tail(b))
    ELSE ord(Head(a)) < ord(Head(b))

\* sorted(set of str)
RECURSIVE sorted_strs(_)
sorted_strs(S) ==
    IF S = {} THEN <<>>
    ELSE LET least == CHOOSE x \in S : \A y \in S \ {x} : str_less(x, y)
         IN  <<least>> \o sorted_strs(S \ {least})

\* The parsers return [references, error]: error is "" for None.
references_from_whitespace_list(value) ==
    IF value = NoneVal THEN [references |-> <<>>, error |-> ""]
    ELSE IF value.k # "str" THEN [references |-> <<>>, error |-> "expected string"]
    ELSE [references |-> split(value.s), error |-> ""]

\* The while loop of _references_from_cell_measures from idx on.
RECURSIVE ScanCellMeasures(_, _, _)
ScanCellMeasures(tokens, idx, references) ==
    IF idx + 1 < Len(tokens)
    THEN LET measure == tokens[idx + 1]
             variable_name == tokens[idx + 2]
         IN  IF ~endswith(measure, <<":">>)
             THEN [references |-> <<>>, error |-> "expected '<measure>: <var>' pairs"]
             ELSE IF endswith(variable_name, <<":">>)
             THEN [references |-> <<>>, error |-> "missing variable name after measure"]
             ELSE ScanCellMeasures(tokens, idx + 2, Append(references, variable_name))
    ELSE IF idx # Len(tokens)
    THEN [references |-> <<>>, error |-> "trailing token without a variable name"]
    ELSE [references |-> references, error |-> ""]

references_from_cell_measures(value) ==
    IF value = NoneVal THEN [references |-> <<>>, error |-> ""]
    ELSE IF value.k # "str" THEN [references |-> <<>>, error |-> "expected string"]
    ELSE LET tokens == split(value.s)
         IN  IF Len(tokens) < 2
             THEN [references |-> <<>>, error |-> "expected one or more '<measure>: <var>' pairs"]
             ELSE ScanCellMeasures(tokens, 0, <<>>)

\* _REFERENCE_ATTR_SPECS: the attribute names in order; cell_measures has its own parser.
REFERENCE_ATTRS == <<s_coordinates, s_bounds, s_grid_mapping, s_ancillary_variables, s_cell_measures>>

parse_reference_attr(attr_name, value) ==
    IF attr_name = s_cell_measures THEN references_from_cell_measures(value)
    ELSE references_from_whitespace_list(value)

\* A mutant of reference_finding_for_attr: a value that does not parse is passed over.
reference_finding_for_attr_lenient(attr_name, attrs, available_names) ==
    LET raw_value == DictGet(attrs, attr_name)
        parsed == parse_reference_attr(attr_name, raw_value)
        missing == sorted_strs({parsed.references[i] : i \in DOMAIN parsed.references}
                                   \ available_names)
    IN  IF parsed.error # "" \/ missing = <<>> THEN <<>>
        ELSE <<[Finding("ERROR", "missing_referenced_variable", attr_name, raw_value, NoneVal)
                   EXCEPT !.missing = missing]>>

\* One pass of the loop of _reference_findings: no or one finding.
reference_finding_for_attr(attr_name, attrs, available_names) ==
    LET raw_value == DictGet(attrs, attr_name)
        parsed == parse_reference_attr(attr_name, raw_value)
        missing == sorted_strs({parsed.references[i] : i \in DOMAIN parsed.references}
                                   \ available_names)
    IN  IF parsed.error # ""
        THEN <<Finding("WARN", "invalid_reference_attr", attr_name, raw_value, NoneVal)>>
        ELSE IF parsed.references = <<>> \/ missing = <<>> THEN <<>>
        ELSE <<[Finding("ERROR", "missing_referenced_variable", attr_name, raw_value, NoneVal)
                   EXCEPT !.missing = missing]>>

RECURSIVE ReferenceFindingsFrom(_, _, _)
ReferenceFindingsFrom(i, attrs, available_names) ==
    IF i > Len(REFERENCE_ATTRS) THEN <<>>
    ELSE reference_finding_for_attr(REFERENCE_ATTRS[i], attrs, available_names)
             \o ReferenceFindingsFrom(i + 1, attrs, available_names)

reference_findings(attrs, available_names) == ReferenceFindingsFrom(1, attrs, available_names)

\* _cf_tokens_from_conventions
cf_tokens_from_conventions(conventions) ==
    IF conventions = NoneVal THEN {}
    ELSE LET raw == split_on(py_str(conventions), ",", <<>>)
             parts == {strip(raw[i]) : i \in DOMAIN raw}
         IN  {part \in parts : startswith(upper(part), s_CF_dash)}

\* A mutant of conventions_findings: any CF token satisfies the check.
conventions_findings_any_token(d, cf_version) ==
    LET conventions == DictGet(d.attrs, s_Conventions)
    IN  IF conventions = NoneVal \/ cf_tokens_from_conventions(conventions) = {}
        THEN <<Finding("WARN", "Conventions", <<>>, conventions, Str(cf_version))>>
        ELSE <<>>

\* _add_conventions_finding: what it appends to issues["global"].
conventions_findings(d, cf_version) ==
    LET conventions == DictGet(d.attrs, s_Conventions)
        cf_tokens == cf_tokens_from_conventions(conventions)
    IN  IF conventions = NoneVal
        THEN <<Finding("WARN", "Conventions", <<>>, NoneVal, Str(cf_version))>>
        ELSE IF cf_version \in cf_tokens THEN <<>>
        ELSE <<Finding("WARN", "Conventions", <<>>, conventions, Str(cf_version))>>

missing_dimension_coordinate_finding ==
    Finding("ERROR", "missing_dimension_coordinate", <<>>, NoneVal, NoneVal)

\* The loop of _coord_attr_findings over the expected attributes from the i-th on.
RECURSIVE CoordAttrFindingsFrom(_, _, _)
CoordAttrFindingsFrom(i, coord, expected) ==
    IF i > Len(expected) THEN <<>>
    ELSE LET key == expected[i][1]
             expected_value == expected[i][2]
             current_value == DictGet(coord.attrs, key)
         IN  (IF current_value = expected_value THEN <<>>
              ELSE <<Finding("WARN", "coord_attr", key, current_value, expected_value)>>)
             \o CoordAttrFindingsFrom(i + 1, coord, expected)

coord_attr_findings(coord, axis_type) ==
    CoordAttrFindingsFrom(1, coord, expected_coord_attrs(axis_type))

coord_dtype_finding(coord, axis_type) ==
    IF axis_type \notin {"lat", "lon"} \/ is_numeric_dtype(coord.dtype) THEN <<>>
    ELSE <<Finding("ERROR", "coord_dtype", <<>>, NoneVal, NoneVal)>>

\* _TIME_UNITS_RE, case-insensitive:
\*   ^\s*(seconds?|minutes?|hours?|days?|months?|years?)\s+since\s+.+$
TIME_UNIT_WORDS ==
    {<<"s", "e", "c", "o", "n", "d">>, <<"m", "i", "n", "u", "t", "e">>, <<"h", "o", "u", "r">>,
     <<"d", "a", "y">>, <<"m", "o", "n", "t", "h">>, <<"y", "e", "a", "r">>}

AllWhitespace(s) == \A i \in DOMAIN s : s[i] \in Whitespace

\* .+$ : one or more characters other than a newline, up to the end or up to a
\* final newline.
MatchesDotPlusToEnd(s) ==
    LET body == IF s # <<>> /\ s[Len(s)] = "\n" THEN SubSeq(s, 1, Len(s) - 1) ELSE s
    IN  body # <<>> /\ \A i \in DOMAIN body : body[i] # "\n"

\* \s+ followed by what `then` accepts
MatchesSpacesThenRest(s) ==
    \E k \in 1..Len(s) : AllWhitespace(SubSeq(s, 1, k)) /\ MatchesDotPlusToEnd(SubSeq(s, k + 1, Len(s)))

MatchesSpacesThenSince(s) ==
    \E k \in 1..Len(s) :
        /\ AllWhitespace(SubSeq(s, 1, k))
        /\ startswith(lower(SubSeq(s, k + 1, Len(s))), s_since)
        /\ MatchesSpacesThenRest(SubSeq(s, k + 1 + Len(s_since), Len(s)))

TIME_UNITS_RE_match(text) ==
    LET t == lstrip(text)
    IN  \E word \in TIME_UNIT_WORDS : \E plural \in {<<>>, <<"s">>} :
            /\ startswith(lower(t), word \o plural)
            /\ MatchesSpacesThenSince(SubSeq(t, Len(word \o plural) + 1, Len(t)))

\* A mutant of time_coord_unit_findings: the units of the encoding are not
\* looked at.
time_coord_unit_findings_attrs_only(coord, axis_type) ==
    IF axis_type # "time" THEN <<>>
    ELSE LET units == DictGet(coord.attrs, s_units)
         IN  IF units = NoneVal /\ coord.dtype # "datetime64"
             THEN <<Finding("ERROR", "coord_attr", s_units, NoneVal, NoneVal)>>
             ELSE IF units.k = "str" /\ ~TIME_UNITS_RE_match(units.s)
             THEN <<Finding("WARN", "coord_attr", <<"u", "n", "i", "t", "s", "_", "f", "o", "r", "m", "a", "t">>,
                            units, NoneVal)>>
             ELSE <<>>

\* _time_coord_unit_findings
time_coord_unit_findings(coord, axis_type) ==
    IF axis_type # "time" THEN <<>>
    ELSE LET attr_units == DictGet(coord.attrs, s_units)
             units == IF attr_units = NoneVal THEN DictGet(coord.encoding, s_units) ELSE attr_units
         IN  IF units = NoneVal /\ coord.dtype # "datetime64"
             THEN <<Finding("ERROR", "coord_attr", s_units, NoneVal, NoneVal)>>
             ELSE IF units.k = "str" /\ ~TIME_UNITS_RE_match(units.s)
             THEN <<Finding("WARN", "coord_attr", <<"u", "n", "i", "t", "s", "_", "f", "o", "r", "m", "a", "t">>,
                            units, NoneVal)>>
             ELSE <<>>

\* _coord_findings_for_axis
coord_findings_for_axis(dm, axis_type, d) ==
    IF ~DictHas(d.coords, dm) THEN <<missing_dimension_coordinate_finding>>
    ELSE LET coord == DictAt(d.coords, dm)
         IN  coord_attr_findings(coord, axis_type)
                 \o coord_dtype_finding(coord, axis_type)
                 \o time_coord_unit_findings(coord, axis_type)
                 \o coordinate_value_findings(coord, axis_type)

\* _VALID_NAME_RE: ^[A-Za-z][A-Za-z0-9_]*$ ($ also matches before a final newline)
Letters == SeqRange(UpperChars) \cup SeqRange(LowerChars)
NameChars == Letters \cup SeqRange(Digits) \cup {"_"}

VALID_NAME_RE_match(name) ==
    LET body == IF name # <<>> /\ name[Len(name)] = "\n"
                THEN SubSeq(name, 1, Len(name) - 1) ELSE name
    IN  /\ body # <<>>
        /\ body[1] \in Letters
        /\ \A i \in DOMAIN body : body[i] \in NameChars

\* bool is no number dtype, so the second test of the source never decides.
is_dimensional_numeric_variable(variable) == is_numeric_dtype(variable.dtype) /\ variable.dtype # "bool"

\* _variable_metadata_findings
variable_metadata_findings(var_name, variable) ==
    LET units == DictGet(variable.attrs, s_units)
        std_name == DictGet(variable.attrs, s_standard_name)
    IN  (IF VALID_NAME_RE_match(var_name) THEN <<>>
         ELSE <<Finding("ERROR", "invalid_variable_name", <<>>, Str(var_name), NoneVal)>>)
        \o (IF is_dimensional_numeric_variable(variable) /\ units = NoneVal
            THEN <<Finding("WARN", "missing_units_attr", <<>>, NoneVal, NoneVal)>> ELSE <<>>)
        \o (IF std_name = NoneVal /\ DictGet(variable.attrs, s_long_name) = NoneVal
            THEN <<Finding("WARN", "missing_standard_or_long_name", <<>>, NoneVal, NoneVal)>>
            ELSE <<>>)
        \o (IF variable.dtype = "object"
            THEN <<Finding("ERROR", "object_dtype_variable", <<>>, NoneVal, NoneVal)>> ELSE <<>>)
        \o (IF std_name # NoneVal /\ units = NoneVal
            THEN <<Finding("ERROR", "missing_units_for_standard_name", <<>>, NoneVal, NoneVal)>>
            ELSE <<>>)

\* _new_issues
new_issues(cf_version) ==
    [cf_version |-> cf_version, engine |-> "heuristic", engine_status |-> "ok",
     check_method |-> "heuristic", global |-> <<>>, coordinates |-> <<>>,
     variables |-> <<>>, notes |-> <<>>]

\* The loop of heuristic_check_dataset over _axis_guesses from the i-th dimension
\* on: a classified dimension with findings gets its entry in
\* issues["coordinates"], an unclassified one a note.
RECURSIVE AxisFindingsFrom(_, _, _)
AxisFindingsFrom(i, d, found) ==
    IF i > Len(d.sizes) THEN found
    ELSE LET dm == d.sizes[i][1]
             axis_type == guess_axis_for_dim(d, dm)
             coord_issues == coord_findings_for_axis(dm, axis_type, d)
         IN  AxisFindingsFrom(i + 1, d,
                 IF axis_type = "none"
                 THEN [found EXCEPT !.notes = Append(@, dm)]
                 ELSE IF coord_issues = <<>> THEN found
                 ELSE [found EXCEPT !.coordinates = DictSet(@, dm, coord_issues)])

\* ds.variables: the names of the coordinates and of the data variables
available_names_of(d) == DictKeys(d.coords) \cup DictKeys(d.data_vars)

\* _add_variable_findings from the i-th data variable on
RECURSIVE AddVariableFindingsFrom(_, _, _)
AddVariableFindingsFrom(i, d, found) ==
    IF i > Len(d.data_vars) THEN found
    ELSE LET var_name == d.data_vars[i][1]
             variable == d.data_vars[i][2]
             findings == variable_metadata_findings(var_name, variable)
                             \o reference_findings(variable.attrs, available_names_of(d))
         IN  AddVariableFindingsFrom(i + 1, d,
                 IF findings = <<>> THEN found
                 ELSE [found EXCEPT !.variables = DictSet(@, var_name, findings)])

\* _add_coordinate_reference_findings from the i-th coordinate on
RECURSIVE AddCoordinateReferenceFindingsFrom(_, _, _)
AddCoordinateReferenceFindingsFrom(i, d, found) ==
    IF i > Len(d.coords) THEN found
    ELSE LET coord_name == d.coords[i][1]
             coord_findings == reference_findings(d.coords[i][2].attrs, available_names_of(d))
         IN  AddCoordinateReferenceFindingsFrom(i + 1, d,
                 IF coord_findings = <<>> THEN found
                 ELSE [found EXCEPT !.coordinates =
                         DictSet(@, coord_name, DictGetOr(@, coord_name, <<>>) \o coord_findings)])

heuristic_check_dataset(d, cf_version) ==
    LET with_global == [new_issues(cf_version) EXCEPT !.global = conventions_findings(d, cf_version)]
        with_axes == AxisFindingsFrom(1, d, with_global)
        with_variables == AddVariableFindingsFrom(1, d, with_axes)
    IN  AddCoordinateReferenceFindingsFrom(1, d, with_variables)

----------------------------------------------------------------------------
(* Metadata fixer: core.py make_dataset_compliant.                         *)

CF_VERSION == <<"C", "F", "-", "1", ".", "1", "2">>

s_calendar == <<"c", "a", "l", "e", "n", "d", "a", "r">>
s_cell_methods == <<"c", "e", "l", "l", "_", "m", "e", "t", "h", "o", "d", "s">>
s_positive == <<"p", "o", "s", "i", "t", "i", "v", "e">>
s_FillValue == <<"_", "F", "i", "l", "l", "V", "a", "l", "u", "e">>
s_time_coverage_start ==
    <<"t", "i", "m", "e", "_", "c", "o", "v", "e", "r", "a", "g", "e", "_", "s", "t", "a", "r", "t">>
s_time_coverage_end ==
    <<"t", "i", "m", "e", "_", "c", "o", "v", "e", "r", "a", "g", "e", "_", "e", "n", "d">>
s_geospatial_lat_min ==
    <<"g", "e", "o", "s", "p", "a", "t", "i", "a", "l", "_", "l", "a", "t", "_", "m", "i", "n">>
s_geospatial_lat_max ==
    <<"g", "e", "o", "s", "p", "a", "t", "i", "a", "l", "_", "l", "a", "t", "_", "m", "a", "x">>
s_geospatial_lon_min ==
    <<"g", "e", "o", "s", "p", "a", "t", "i", "a", "l", "_", "l", "o", "n", "_", "m", "i", "n">>
s_geospatial_lon_max ==
    <<"g", "e", "o", "s", "p", "a", "t", "i", "a", "l", "_", "l", "o", "n", "_", "m", "a", "x">>
s_days_since_2000 ==
    <<"d", "a", "y", "s", " ", "s", "i", "n", "c", "e", " ", "2", "0", "0", "0", "-", "0", "1", "-", "0", "1">>

CF_ATTR_CASE_KEYS ==
    <<s_units, s_standard_name, s_long_name, s_axis, s_calendar, s_coordinates, s_bounds,
      s_grid_mapping, s_cell_methods, s_cell_measures, s_positive>>

\* Popping each of the keys from the i-th on, except the expected one.
RECURSIVE PopOthers(_, _, _, _)
PopOthers(normalized, keys, expected, i) ==
    IF i > Len(keys) THEN normalized
    ELSE PopOthers(IF keys[i] # expected THEN DictPop(normalized, keys[i]) ELSE normalized,
                   keys, expected, i + 1)

\* The loop of _normalize_attr_key_case from the i-th expected key on;
\* keys_in_order are the keys of the dict as it was handed in.
RECURSIVE NormalizeFrom(_, _, _, _)
NormalizeFrom(i, normalized, keys_in_order, expected_keys) ==
    IF i > Len(expected_keys) THEN normalized
    ELSE LET expected == expected_keys[i]
             matching_keys == SelectSeq(keys_in_order, LAMBDA key : lower(key) = lower(expected))
             others == SelectSeq(matching_keys, LAMBDA key : key # expected)
         IN  NormalizeFrom(i + 1,
                 IF matching_keys = <<>> THEN normalized
                 ELSE IF DictHas(normalized, expected)
                 THEN PopOthers(normalized, matching_keys, expected, 1)
                 ELSE IF others = <<>> THEN normalized
                 ELSE PopOthers(DictSet(normalized, expected, DictAt(normalized, others[1])),
                                matching_keys, expected, 1),
                 keys_in_order, expected_keys)

normalize_attr_key_case(attrs, expected_keys) ==
    NormalizeFrom(1, attrs, [i \in DOMAIN attrs |-> attrs[i][1]], expected_keys)

\* float(text) for the texts of the model: digits give their number, anything
\* else raises ValueError.
IsDigits(text) == text # <<>> /\ \A i \in DOMAIN text : text[i] \in SeqRange(Digits)
RECURSIVE nat_of(_)
nat_of(text) ==
    IF text = <<>> THEN 0
    ELSE 10 * nat_of(SubSeq(text, 1, Len(text) - 1))
             + ((CHOOSE i \in DOMAIN Digits : Digits[i] = text[Len(text)]) - 1)

\* coord.astype(float): whether it raises, and the values it gives otherwise.
astype_float_raises(coord) ==
    coord.dtype = "str" /\ \E i \in DOMAIN coord.values : ~IsDigits(coord.values[i].s)
astype_float(coord) ==
    [coord EXCEPT !.dtype = "float64",
                  !.values = [i \in DOMAIN coord.values |->
                                 IF coord.dtype = "str" THEN Num(nat_of(coord.values[i].s))
                                 ELSE coord.values[i]]]

\* The loop over each (key, value) of the expected attributes: new_attrs[key] = val
RECURSIVE SetAll(_, _, _)
SetAll(attrs, items, i) ==
    IF i > Len(items) THEN attrs ELSE SetAll(DictSet(attrs, items[i][1], items[i][2]), items, i + 1)

\* A mutant of NormalizeAll: the attribute names are left as they are.
NormalizeAll_kept(variables) == variables

\* The loops of make_dataset_compliant that rewrite the attrs of every variable
\* of a dict.
NormalizeAll(variables) ==
    [i \in DOMAIN variables |->
        <<variables[i][1],
          [variables[i][2] EXCEPT !.attrs = normalize_attr_key_case(@, CF_ATTR_CASE_KEYS)]>>]

\* The second loop of make_dataset_compliant from the i-th dimension on, the axis
\* guesses having been taken before the loop on the dataset `guessed`.
RECURSIVE FixAxesFrom(_, _, _)
FixAxesFrom(i, o, guessed) ==
    IF i > Len(o.sizes) THEN o
    ELSE LET dm == o.sizes[i][1]
             axis_type == guess_axis_for_dim(guessed, dm)
             with_coord ==
                 IF DictHas(o.coords, dm) THEN o
                 ELSE [o EXCEPT !.coords =
                         DictSet(@, dm, Variable(<<dm>>, "int64",
                                                 [k \in 1..o.sizes[i][2] |-> Num(k - 1)],
                                                 <<>>, <<>>))]
             coord == DictAt(with_coord.coords, dm)
             new_attrs == SetAll(coord.attrs, expected_coord_attrs(axis_type), 1)
             coerced == IF axis_type \in {"lat", "lon"} /\ ~is_numeric_dtype(coord.dtype)
                        THEN astype_float(coord) ELSE coord
         IN  FixAxesFrom(i + 1,
                 IF axis_type = "none" THEN o
                 ELSE [with_coord EXCEPT !.coords = DictSet(@, dm, [coerced EXCEPT !.attrs = new_attrs])],
                 guessed)

\* Whether the astype(float) of the loop raises for some dimension.
FixAxesRaises(o) ==
    \E i \in DOMAIN o.sizes :
        LET dm == o.sizes[i][1]
        IN  /\ guess_axis_for_dim(o, dm) \in {"lat", "lon"}
            /\ DictHas(o.coords, dm)
            /\ ~is_numeric_dtype(DictAt(o.coords, dm).dtype)
            /\ astype_float_raises(DictAt(o.coords, dm))

\* _first_axis_coord_name: the first dimension, in sorted order, guessed as the
\* axis type and having a coordinate; <<>> standing for None (no dimension of the
\* model has the empty name).
first_axis_coord_name(o, guessed, axis_type) ==
    LET names == sorted_strs({o.sizes[i][1] : i \in DOMAIN o.sizes})
        hits == SelectSeq(names, LAMBDA dm :
                    guess_axis_for_dim(guessed, dm) = axis_type /\ DictHas(o.coords, dm))
    IN  IF hits = <<>> THEN <<>> ELSE hits[1]

\* Order of array elements: -inf below and +inf above every number.
Below(a, b) ==
    IF a.k = "inf" THEN a.n < 0 /\ b # a
    ELSE IF b.k = "inf" THEN b.n > 0
    ELSE a.n < b.n

\* _coord_bounds of a non-empty coordinate: (min, max) skipping NaN and NaT,
\* <<>> standing for None when nothing is left.
coord_bounds(coord) ==
    LET present == {v \in SeqRange(coord.values) : v.k \in {"num", "inf"}}
    IN  IF present = {} THEN <<>>
        ELSE <<CHOOSE v \in present : \A w \in present \ {v} : Below(v, w),
               CHOOSE v \in present : \A w \in present \ {v} : Below(w, v)>>

\* str(value) of a bound: an int for int64 and datetime64 (the item() of a
\* nanosecond datetime is an int), a float for float64.
bound_str(dtype, v) == IF dtype = "float64" THEN py_str(v) \o <<".", "0">> ELSE py_str(v)

\* isoformat of the date num2date gives for n days since 2000-01-01, n < 31.
iso_days_since_2000(n) ==
    <<"2", "0", "0", "0", "-", "0", "1", "-">>
        \o (IF n + 1 < 10 THEN <<"0">> ELSE <<>>) \o nat_str(n + 1)
        \o <<"T", "0", "0", ":", "0", "0", ":", "0", "0">>

\* _decoded_numeric_time_bounds followed by _format_time_coverage_value.  The
\* time coordinates of the model count days since 2000-01-01 where their units
\* match _TIME_UNITS_RE.
time_coverage_value(coord, v) ==
    LET attr_units == DictGet(coord.attrs, s_units)
        units == IF attr_units = NoneVal THEN DictGet(coord.encoding, s_units) ELSE attr_units
        units_text == IF units = NoneVal THEN <<>> ELSE strip(py_str(units))
    IN  IF units_text = <<>> \/ ~TIME_UNITS_RE_match(units_text) \/ units_text # s_days_since_2000
        THEN Str(bound_str(coord.dtype, v))
        ELSE Str(iso_days_since_2000(v.n))

\* _update_extent_attrs_from_coords
update_extent_attrs_from_coords(o, guessed) ==
    LET time_name == first_axis_coord_name(o, guessed, "time")
        lat_name == first_axis_coord_name(o, guessed, "lat")
        lon_name == first_axis_coord_name(o, guessed, "lon")
        BoundsOf(name) == IF name = <<>> THEN <<>> ELSE coord_bounds(DictAt(o.coords, name))
        t == BoundsOf(time_name)
        la == BoundsOf(lat_name)
        lo == BoundsOf(lon_name)
        a1 == IF t = <<>> THEN o.attrs
              ELSE DictSet(DictSet(o.attrs, s_time_coverage_start,
                                   time_coverage_value(DictAt(o.coords, time_name), t[1])),
                           s_time_coverage_end,
                           time_coverage_value(DictAt(o.coords, time_name), t[2]))
        a2 == IF la = <<>> THEN a1
              ELSE DictSet(DictSet(a1, s_geospatial_lat_min, la[1]), s_geospatial_lat_max, la[2])
        a3 == IF lo = <<>> THEN a2
              ELSE DictSet(DictSet(a2, s_geospatial_lon_min, lo[1]), s_geospatial_lon_max, lo[2])
    IN  [o EXCEPT !.attrs = a3]

\* A mutant of RemoveCoordFillValues: the encoding is left as it was.
RemoveCoordFillValues_attrs_only(o) ==
    [o EXCEPT !.coords =
        [i \in DOMAIN @ |-> <<@[i][1], [@[i][2] EXCEPT !.attrs = DictPop(@, s_FillValue)]>>]]

\* The last loop of make_dataset_compliant: no coordinate keeps a _FillValue.
RemoveCoordFillValues(o) ==
    [o EXCEPT !.coords =
        [i \in DOMAIN @ |->
            <<@[i][1], [@[i][2] EXCEPT !.attrs = DictPop(@, s_FillValue),
                                       !.encoding = <<(<<s_FillValue, NoneVal>>)>>]>>]]

\* A mutant of make_dataset_compliant_out: the expected attributes are not set.
make_dataset_compliant_out_no_axes(d) ==
    LET with_conventions == [d EXCEPT !.attrs = DictSet(@, s_Conventions, Str(CF_VERSION))]
        normalized == [with_conventions EXCEPT !.data_vars = NormalizeAll(@),
                                               !.coords = NormalizeAll(@)]
    IN  RemoveCoordFillValues(update_extent_attrs_from_coords(normalized, normalized))

\* make_dataset_compliant when nothing raises: the dataset returned.
make_dataset_compliant_out(d) ==
    LET with_conventions == [d EXCEPT !.attrs = DictSet(@, s_Conventions, Str(CF_VERSION))]
        normalized == [with_conventions EXCEPT !.data_vars = NormalizeAll(@),
                                               !.coords = NormalizeAll(@)]
        fixed == FixAxesFrom(1, normalized, normalized)
    IN  RemoveCoordFillValues(update_extent_attrs_from_coords(fixed, normalized))

\* Whether make_dataset_compliant raises: a lat or lon coordinate whose texts are
\* no numbers.
make_dataset_compliant_raises(d) ==
    FixAxesRaises([d EXCEPT !.data_vars = NormalizeAll(@), !.coords = NormalizeAll(@)])

\* The objects a call of make_dataset_compliant works with: the caller's
\* dataset, "input", and the one ds.copy(deep=True) makes, "copy".
\* A mutant of copy_deep: the copy is the input itself.
copy_shared(object) == object

\* out = ds.copy(deep=True): a new object that shares nothing with ds.
copy_deep(object) == "copy"

\* What make_dataset_compliant has written to the object it works on when it
\* returns or raises: every assignment of the function goes to out.
make_dataset_compliant_written(d) ==
    IF make_dataset_compliant_raises(d)
    THEN [d EXCEPT !.attrs = DictSet(@, s_Conventions, Str(CF_VERSION)),
                   !.data_vars = NormalizeAll(@), !.coords = NormalizeAll(@)]
    ELSE make_dataset_compliant_out(d)

----------------------------------------------------------------------------
(* Coverage checks: ocean.py _single_ocean_report and                      *)
(* _single_time_cover_report.                                              *)
(*                                                                         *)
(* A data variable has the dimensions (lead, lat, lon) or (lat, lon).  Its *)
(* cells are <<t, j, i>>, positions along lead, lat and lon counted from   *)
(* 0, t being 0 without a leading dimension.  The cells in nan hold NaN,   *)
(* those in zero hold 0.0 and every other cell holds 1.0.                  *)

DataArray(lead, lead_size, lead_coord, lon_values, lat_values, nan, zero, attrs, encoding) ==
    [lead |-> lead, lead_size |-> lead_size, lead_coord |-> lead_coord,
     lon_values |-> lon_values, lat_values |-> lat_values,
     nan |-> nan, zero |-> zero, attrs |-> attrs, encoding |-> encoding]

\* da.dims
DimsOfArray(a) == (IF a.lead = <<>> THEN <<>> ELSE <<a.lead>>) \o <<s_lat, s_lon>>

Cells(a) == (0..(a.lead_size - 1)) \X (0..(Len(a.lat_values) - 1)) \X (0..(Len(a.lon_values) - 1))

ValueAt(a, c) == IF c \in a.nan THEN NaN ELSE IF c \in a.zero THEN Num(0) ELSE Num(1)

\* A mutant of missing_mask: only null cells count.
missing_mask_null_only(a, c) == ValueAt(a, c) = NaN

\* _missing_mask at one cell: null, or equal to the _FillValue of attrs or of
\* encoding (NaN equals nothing).
missing_mask(a, c) ==
    LET value == ValueAt(a, c)
        EqualsFill(source) ==
            LET fill_value == DictGet(source, s_FillValue)
            IN  fill_value # NoneVal /\ fill_value.k = "num" /\ value.k = "num"
                    /\ value.n = fill_value.n
    IN  value = NaN \/ EqualsFill(a.attrs) \/ EqualsFill(a.encoding)

\* _resolve_time_dim: the dimension name, <<>> standing for None.  Only the
\* leading dimension can have a coordinate that says standard_name = time here:
\* lat and lon carry no such attribute.
resolve_time_dim(a, preferred_name) ==
    LET dims == SeqRange(DimsOfArray(a))
    IN  IF preferred_name # <<>> /\ preferred_name \in dims THEN preferred_name
        ELSE IF s_time \in dims THEN s_time
        ELSE IF /\ a.lead # <<>>
                /\ a.lead_coord # <<>>
                /\ normalize_name(py_str(DictGetOr(a.lead_coord.attrs, s_standard_name, Str(<<>>))))
                       = s_time
        THEN a.lead
        ELSE <<>>

\* The ascending list of the members of a set of integers (np.flatnonzero).
RECURSIVE Ascend(_)
Ascend(S) ==
    IF S = {} THEN <<>>
    ELSE LET least == CHOOSE x \in S : \A y \in S : x <= y
         IN  <<least>> \o Ascend(S \ {least})

\* Python's index: -1 is the last position.
PyIndex(k, size) == IF k < 0 THEN size + k ELSE k

\* _missing_lon_indices_for_time; time_index is {} for None and {k} for k.  The
\* section is the whole array unless both a time dimension and an index are given.
missing_lon_indices_for_time(a, time_dim, time_index) ==
    LET whole == time_dim = <<>> \/ time_index = {}
        ts == IF whole THEN 0..(a.lead_size - 1)
              ELSE {PyIndex(k, a.lead_size) : k \in time_index}
    IN  Ascend({i \in 0..(Len(a.lon_values) - 1) :
                   \A t \in ts : \A j \in 0..(Len(a.lat_values) - 1) : missing_mask(a, <<t, j, i>>)})

\* str(value) of a float64 coordinate value and of an index
value_label(v) == bound_str("float64", v)

\* _value_ranges_from_indices
ValueRanges(rs, values) ==
    [k \in DOMAIN rs |-> [start |-> value_label(Num(values[rs[k][1] + 1])),
                          end |-> value_label(Num(values[rs[k][2] + 1]))]]

value_ranges_from_indices(ixs, values) == ValueRanges(indices_to_ranges(ixs), values)

\* The time samples of _edge_of_map_check with a time dimension.
SamplesOf(time_size, last_idx, middle_idx, missing_last, agree, missing_middle) ==
    [sampled |-> <<last_idx>>
                    \o (IF 0 # last_idx THEN <<0>> ELSE <<>>)
                    \o (IF agree /\ time_size > 2 /\ middle_idx \notin {last_idx, 0}
                        THEN <<middle_idx>> ELSE <<>>),
     persistent |-> IF ~agree THEN <<>>
                    ELSE IF time_size > 2 /\ missing_middle # missing_last THEN <<>>
                    ELSE missing_last]

AgreeingSamples(time_size, missing_last, missing_first, missing_middle) ==
    SamplesOf(time_size, time_size - 1, time_size \div 2, missing_last,
              missing_last # <<>> /\ missing_last = missing_first, missing_middle)

EdgeSamples(a) ==
    AgreeingSamples(a.lead_size,
                    missing_lon_indices_for_time(a, a.lead, {a.lead_size - 1}),
                    missing_lon_indices_for_time(a, a.lead, {0}),
                    missing_lon_indices_for_time(a, a.lead, {a.lead_size \div 2}))

\* The report of _edge_of_map_check
EdgeReport(a, sampled, missing_lon_list) ==
    [enabled |-> TRUE,
     status |-> IF missing_lon_list # <<>> THEN "fail" ELSE "pass",
     sampled_time_indices |-> sampled,
     missing_longitude_count |-> Len(missing_lon_list),
     missing_longitudes |-> [k \in DOMAIN missing_lon_list |-> a.lon_values[missing_lon_list[k] + 1]],
     missing_longitude_ranges |-> value_ranges_from_indices(missing_lon_list, a.lon_values)]

EdgeReportOf(a, samples) == EdgeReport(a, samples.sampled, samples.persistent)

\* A mutant of edge_of_map_check: only the last time index is sampled.
edge_of_map_check_last_only(a, time_dim) ==
    EdgeReport(a, <<a.lead_size - 1>>, missing_lon_indices_for_time(a, time_dim, {-1}))

\* _edge_of_map_check
edge_of_map_check(a, time_dim) ==
    EdgeReportOf(a, IF time_dim = <<>>
                    THEN [sampled |-> <<0>>,
                          persistent |-> missing_lon_indices_for_time(a, <<>>, {})]
                    ELSE EdgeSamples(a))

\* _LAND_REFERENCE_POINTS and _OCEAN_REFERENCE_POINTS: (label, lat, lon)
LAND_REFERENCE_POINTS ==
    <<(<<"sahara", 23, 13>>), (<<"australia_interior", -25, 134>>), (<<"mongolia", 47, 103>>),
      (<<"greenland_interior", 72, -40>>), (<<"south_america_interior", -15, -60>>)>>

OCEAN_REFERENCE_POINTS ==
    <<(<<"equatorial_pacific", 0, -140>>), (<<"north_atlantic", 30, -40>>),
      (<<"indian_ocean", -30, 80>>), (<<"south_pacific", -45, -150>>), (<<"west_pacific", 10, 160>>)>>

\* np.nanmin and np.nanmax of a coordinate without NaN
RECURSIVE MinIn(_, _, _)
MinIn(values, lo, hi) ==
    IF lo = hi THEN values[lo]
    ELSE LET mid == (lo + hi) \div 2
             l == MinIn(values, lo, mid)
             r == MinIn(values, mid + 1, hi)
         IN  IF r < l THEN r ELSE l
SeqMin(values) == MinIn(values, 1, Len(values))

RECURSIVE MaxIn(_, _, _)
MaxIn(values, lo, hi) ==
    IF lo = hi THEN values[lo]
    ELSE LET mid == (lo + hi) \div 2
             l == MaxIn(values, lo, mid)
             r == MaxIn(values, mid + 1, hi)
         IN  IF r > l THEN r ELSE l
SeqMax(values) == MaxIn(values, 1, Len(values))

\* _longitude_convention (the coordinates of the model are whole numbers, which
\* the tolerance of 1e-6 does not touch)
longitude_convention(lon_values) ==
    IF SeqMin(lon_values) >= -180 /\ SeqMax(lon_values) <= 180 THEN "-180_180"
    ELSE IF SeqMin(lon_values) >= 0 /\ SeqMax(lon_values) <= 360 THEN "0_360"
    ELSE "other"

\* _normalize_lon_for_grid
normalize_lon_for_grid(lon, convention) ==
    IF convention = "0_360" THEN lon % 360
    ELSE IF convention = "-180_180" THEN ((lon + 180) % 360) - 180
    ELSE lon

\* Spans from which a grid counts as global.
GlobalLonSpan == 300
GlobalLatSpan == 120

\* A mutant of is_global_grid: the longitude span alone decides.
is_global_grid_lon_only(lon_values, lat_values) ==
    SeqMax(lon_values) - SeqMin(lon_values) >= GlobalLonSpan

\* _is_global_grid
is_global_grid(lon_values, lat_values) ==
    /\ SeqMax(lon_values) - SeqMin(lon_values) >= GlobalLonSpan
    /\ SeqMax(lat_values) - SeqMin(lat_values) >= GlobalLatSpan

Distance(x, y) == IF x >= y THEN x - y ELSE y - x

\* sel(method="nearest") on a monotonic coordinate: the position (from 0) of
\* the value nearest to the target, the later position when two are equally near.
RECURSIVE NearestIn(_, _, _, _)
NearestIn(values, target, lo, hi) ==
    IF lo = hi THEN lo
    ELSE LET mid == (lo + hi) \div 2
             l == NearestIn(values, target, lo, mid)
             r == NearestIn(values, target, mid + 1, hi)
         IN  IF Distance(values[r], target) <= Distance(values[l], target) THEN r ELSE l

nearest_index(values, target) == NearestIn(values, target, 1, Len(values)) - 1

\* _point_is_missing of the cell selected in the section
point_is_missing(a, t, j, i) == missing_mask(a, <<t, j, i>>)

\* check_points of _point_alignment_check from the k-th point on; without a time
\* dimension a leading dimension stays in the selection and is reduced by all().
RECURSIVE CheckPointsFrom(_, _, _, _, _, _)
CheckPointsFrom(k, points, expected_missing, a, time_dim, lon_convention) ==
    IF k > Len(points) THEN <<>>
    ELSE LET label == points[k][1]
             lat == points[k][2]
             target_lon == normalize_lon_for_grid(points[k][3], lon_convention)
             j == nearest_index(a.lat_values, lat)
             i == nearest_index(a.lon_values, target_lon)
             ts == IF time_dim = <<>> THEN 0..(a.lead_size - 1) ELSE {PyIndex(-1, a.lead_size)}
             observed_missing == \A t \in ts : point_is_missing(a, t, j, i)
         IN  (IF observed_missing = expected_missing THEN <<>>
              ELSE <<[point |-> label, requested_lat |-> lat, requested_lon |-> target_lon,
                      actual_lat |-> a.lat_values[j + 1], actual_lon |-> a.lon_values[i + 1],
                      expected_missing |-> expected_missing,
                      observed_missing |-> observed_missing]>>)
             \o CheckPointsFrom(k + 1, points, expected_missing, a, time_dim, lon_convention)

\* The report of _point_alignment_check on a global grid
AlignmentReport(land_mismatches, ocean_mismatches) ==
    [enabled |-> TRUE,
     status |-> IF Len(land_mismatches) + Len(ocean_mismatches) # 0 THEN "fail" ELSE "pass",
     mismatch_count |-> Len(land_mismatches) + Len(ocean_mismatches),
     land_points_checked |-> Len(LAND_REFERENCE_POINTS),
     ocean_points_checked |-> Len(OCEAN_REFERENCE_POINTS),
     land_mismatches |-> land_mismatches, ocean_mismatches |-> ocean_mismatches]

\* _point_alignment_check
point_alignment_check(a, lon_convention, time_dim) ==
    IF ~is_global_grid(a.lon_values, a.lat_values)
    THEN [enabled |-> TRUE, status |-> "skipped_non_global", mismatch_count |-> 0,
          land_points_checked |-> 0, ocean_points_checked |-> 0,
          land_mismatches |-> <<>>, ocean_mismatches |-> <<>>]
    ELSE AlignmentReport(
             CheckPointsFrom(1, LAND_REFERENCE_POINTS, TRUE, a, time_dim, lon_convention),
             CheckPointsFrom(1, OCEAN_REFERENCE_POINTS, FALSE, a, time_dim, lon_convention))

\* _range_records: the labels are the coordinate's values (whole numbers of an
\* int64 coordinate here) or, without a coordinate, the indices.
RangeLabel(coord, k) == IF coord # <<>> THEN py_str(coord.values[k + 1]) ELSE py_str(Num(k))

RangeRecords(rs, coord) ==
    [k \in DOMAIN rs |-> [start_index |-> rs[k][1], end_index |-> rs[k][2],
                          start |-> RangeLabel(coord, rs[k][1]),
                          end |-> RangeLabel(coord, rs[k][2])]]

range_records(ixs, coord) == RangeRecords(indices_to_ranges(ixs), coord)

\* The report of _time_missing_check with a time dimension
TimeMissingReport(a, missing_time_indices) ==
    [enabled |-> TRUE, status |-> IF missing_time_indices # <<>> THEN "fail" ELSE "pass",
     missing_slice_count |-> Len(missing_time_indices),
     missing_slice_ranges |-> range_records(missing_time_indices, a.lead_coord)]

\* A mutant of time_missing_check: a slice with one missing element counts.
time_missing_check_any(a, time_dim) ==
    TimeMissingReport(a,
        Ascend({t \in 0..(a.lead_size - 1) :
                   \E j \in 0..(Len(a.lat_values) - 1) : \E i \in 0..(Len(a.lon_values) - 1) :
                       missing_mask(a, <<t, j, i>>)}))

\* _time_missing_check
time_missing_check(a, time_dim) ==
    IF time_dim = <<>>
    THEN [enabled |-> TRUE, status |-> "skipped_no_time", missing_slice_count |-> 0,
          missing_slice_ranges |-> <<>>]
    ELSE TimeMissingReport(a,
             Ascend({t \in 0..(a.lead_size - 1) :
                        \A j \in 0..(Len(a.lat_values) - 1) :
                            \A i \in 0..(Len(a.lon_values) - 1) : missing_mask(a, <<t, j, i>>)}))

\* The report of a check that the configuration disabled.
DisabledCheck == [enabled |-> FALSE, status |-> "skipped"]

\* The report of _single_ocean_report, given the reports of its two checks
OceanReport(time_dim, lon_convention, check_edge_of_map, check_land_ocean_offset, edge, points) ==
    [time_dim |-> time_dim, longitude_convention |-> lon_convention,
     checks_enabled |-> [edge_of_map |-> check_edge_of_map,
                         land_ocean_offset |-> check_land_ocean_offset],
     edge_of_map |-> edge, land_ocean_offset |-> points,
     ok |-> ~\E status \in {edge.status, points.status} : status \in {"fail", "error"}]

OceanChecks(a, time_dim, lon_convention, check_edge_of_map, check_land_ocean_offset) ==
    OceanReport(time_dim, lon_convention, check_edge_of_map, check_land_ocean_offset,
                IF check_edge_of_map THEN edge_of_map_check(a, time_dim) ELSE DisabledCheck,
                IF check_land_ocean_offset
                THEN point_alignment_check(a, lon_convention, time_dim) ELSE DisabledCheck)

\* A mutant of single_ocean_report: only a check that passed leaves ok true.
single_ocean_report_pass_only(a, time_name, check_edge_of_map, check_land_ocean_offset) ==
    LET time_dim == resolve_time_dim(a, time_name)
        lon_convention == longitude_convention(a.lon_values)
        edge == IF check_edge_of_map THEN edge_of_map_check(a, time_dim) ELSE DisabledCheck
        points == IF check_land_ocean_offset
                  THEN point_alignment_check(a, lon_convention, time_dim) ELSE DisabledCheck
    IN  [time_dim |-> time_dim, longitude_convention |-> lon_convention,
         checks_enabled |-> [edge_of_map |-> check_edge_of_map,
                             land_ocean_offset |-> check_land_ocean_offset],
         edge_of_map |-> edge, land_ocean_offset |-> points,
         ok |-> \A status \in {edge.status, points.status} : status = "pass"]

\* _single_ocean_report
single_ocean_report(a, time_name, check_edge_of_map, check_land_ocean_offset) ==
    OceanChecks(a, resolve_time_dim(a, time_name), longitude_convention(a.lon_values),
                check_edge_of_map, check_land_ocean_offset)

\* The report of _single_time_cover_report, given the report of its check
TimeCoverReport(time_dim, time_missing) ==
    [time_dim |-> time_dim, time_missing |-> time_missing,
     ok |-> ~\E status \in {time_missing.status} : status \in {"fail", "error"}]

TimeCoverChecks(a, time_dim) == TimeCoverReport(time_dim, time_missing_check(a, time_dim))

\* _single_time_cover_report, the time dimension resolved as _choose_time_vars does
single_time_cover_report(a, time_name) == TimeCoverChecks(a, resolve_time_dim(a, time_name))

----------------------------------------------------------------------------
(* Compliance check: core.py check_dataset_compliant.                      *)
(*                                                                         *)
(* A function that may raise returns [raises, value]; the external checker *)
(* is an input: what it does on the dataset is part of the call.           *)

s_auto == <<"a", "u", "t", "o">>
s_python == <<"p", "y", "t", "h", "o", "n">>
s_tables == <<"t", "a", "b", "l", "e", "s">>
s_html == <<"h", "t", "m", "l">>
s_cf == <<"c", "f">>
s_ferret == <<"f", "e", "r", "r", "e", "t">>
s_cfchecker == <<"c", "f", "c", "h", "e", "c", "k", "e", "r">>
s_cfcheck == <<"c", "f", "c", "h", "e", "c", "k">>
s_heuristic == <<"h", "e", "u", "r", "i", "s", "t", "i", "c">>

\* formatting.py _resolve_auto_report_format: the environment is a notebook, a
\* command line or neither.
resolve_auto_report_format(environment) ==
    IF environment = "notebook" THEN s_html
    ELSE IF environment = "cli" THEN s_tables
    ELSE s_python

\* formatting.py normalize_report_format
normalize_report_format(report_format, environment) ==
    LET normalized == lower(strip(report_format))
    IN  IF normalized = s_auto
        THEN [raises |-> FALSE, value |-> resolve_auto_report_format(environment)]
        ELSE IF normalized \notin {s_auto, s_python, s_tables, s_html}
        THEN [raises |-> TRUE, value |-> <<>>]
        ELSE [raises |-> FALSE, value |-> normalized]

SUPPORTED_CONVENTIONS == <<s_cf, s_ferret>>
DEFAULT_CONVENTIONS == <<s_cf, s_ferret>>

\* A list: List(<<part, ...>>)
List(parts) == [k |-> "list", parts |-> parts]

\* The loop of _normalize_requested_conventions that drops repeated names.
RECURSIVE SelectedFrom(_, _, _)
SelectedFrom(i, selected_raw, selected) ==
    IF i > Len(selected_raw) THEN selected
    ELSE SelectedFrom(i + 1, selected_raw,
             IF selected_raw[i] \in SeqRange(selected) THEN selected
             ELSE Append(selected, selected_raw[i]))

\* A mutant of normalize_requested_conventions: unknown names are dropped.
normalize_requested_conventions_lenient(conventions) ==
    IF conventions = NoneVal THEN [raises |-> FALSE, value |-> DEFAULT_CONVENTIONS]
    ELSE LET parts == IF conventions.k = "str" THEN split_on(conventions.s, ",", <<>>)
                      ELSE conventions.parts
             raw == [i \in DOMAIN parts |-> lower(strip(parts[i]))]
             selected_raw == SelectSeq(raw, LAMBDA name : name \in SeqRange(SUPPORTED_CONVENTIONS))
         IN  [raises |-> FALSE, value |-> SelectedFrom(1, selected_raw, <<>>)]

\* _normalize_requested_conventions
normalize_requested_conventions(conventions) ==
    IF conventions = NoneVal THEN [raises |-> FALSE, value |-> DEFAULT_CONVENTIONS]
    ELSE LET parts == IF conventions.k = "str" THEN split_on(conventions.s, ",", <<>>)
                      ELSE conventions.parts
             raw == [i \in DOMAIN parts |-> lower(strip(parts[i]))]
             selected_raw == SelectSeq(raw, LAMBDA name : name # <<>>)
             unknown == SeqRange(selected_raw) \ SeqRange(SUPPORTED_CONVENTIONS)
         IN  IF selected_raw = <<>> \/ unknown # {}
             THEN [raises |-> TRUE, value |-> <<>>]
             ELSE [raises |-> FALSE, value |-> SelectedFrom(1, selected_raw, <<>>)]

\* _normalize_requested_engine
normalize_requested_engine(engine) ==
    IF engine = NoneVal THEN [raises |-> FALSE, value |-> s_auto]
    ELSE LET normalized == lower(strip(py_str(engine)))
         IN  IF normalized = s_cfcheck THEN [raises |-> FALSE, value |-> s_cfchecker]
             ELSE IF normalized \notin {s_auto, s_cfchecker, s_heuristic}
             THEN [raises |-> TRUE, value |-> <<>>]
             ELSE [raises |-> FALSE, value |-> normalized]

\* _format_cf_version
format_cf_version(version) ==
    IF startswith(version, s_CF_dash) THEN version ELSE s_CF_dash \o version

\* _empty_report
empty_report(cf_version) ==
    [cf_version |-> format_cf_version(cf_version), engine |-> "none",
     engine_status |-> "skipped", check_method |-> "conventions_only", global |-> <<>>,
     coordinates |-> <<>>, variables |-> <<>>, notes |-> <<>>]

NON_COMPLIANT_CATEGORIES == <<"FATAL", "ERROR", "WARN">>

\* A finding of the external checker: {"severity": category, "message": message}
CheckerFinding(category, message) ==
    [Finding(category, "", <<>>, NoneVal, NoneVal) EXCEPT !.message = message]

\* The findings _translate_cfchecker_results makes of one scope's results, a
\* dict from category to messages: FATAL first, then ERROR, then WARN; other
\* categories (INFO, VERSION) are left out.
RECURSIVE CheckerFindingsFrom(_, _)
CheckerFindingsFrom(i, category_results) ==
    IF i > Len(NON_COMPLIANT_CATEGORIES) THEN <<>>
    ELSE LET category == NON_COMPLIANT_CATEGORIES[i]
             messages == DictGetOr(category_results, category, <<>>)
         IN  [k \in DOMAIN messages |-> CheckerFinding(category, messages[k])]
                 \o CheckerFindingsFrom(i + 1, category_results)

CountOf(findings, category) ==
    Cardinality({k \in DOMAIN findings : findings[k].severity = category})

\* The loop of _translate_cfchecker_results over results["variables"] from the
\* i-th on: findings go to the coordinates or to the variables, counts are
\* incremented with each finding.
RECURSIVE TranslateFrom(_, _, _, _)
TranslateFrom(i, variables, d, translated) ==
    IF i > Len(variables) THEN translated
    ELSE LET var_name == variables[i][1]
             var_findings == CheckerFindingsFrom(1, variables[i][2])
             counted == [translated EXCEPT
                            !.counts.fatal = @ + CountOf(var_findings, "FATAL"),
                            !.counts.error = @ + CountOf(var_findings, "ERROR"),
                            !.counts.warn = @ + CountOf(var_findings, "WARN")]
         IN  TranslateFrom(i + 1, variables, d,
                 IF var_findings = <<>> THEN counted
                 ELSE IF DictHas(d.coords, var_name)
                 THEN [counted EXCEPT !.coordinates = DictSet(@, var_name, var_findings)]
                 ELSE [counted EXCEPT !.variables = DictSet(@, var_name, var_findings)])

\* _translate_cfchecker_results
translate_cfchecker_results(results, version, d) ==
    LET global_findings == CheckerFindingsFrom(1, results.global)
    IN  TranslateFrom(1, results.variables, d,
            [cf_version |-> format_cf_version(version), engine |-> "cfchecker",
             engine_status |-> "ok", check_method |-> "cfchecker",
             global |-> global_findings, coordinates |-> <<>>, variables |-> <<>>,
             notes |-> <<>>,
             counts |-> [fatal |-> CountOf(global_findings, "FATAL"),
                         error |-> CountOf(global_findings, "ERROR"),
                         warn |-> CountOf(global_findings, "WARN")]])

\* _append_coordinate_finding and _append_variable_finding
append_coordinate_finding(found, coord_name, finding) ==
    [found EXCEPT !.coordinates = DictSet(@, coord_name, Append(DictGetOr(@, coord_name, <<>>), finding))]

append_variable_finding(found, var_name, finding) ==
    [found EXCEPT !.variables = DictSet(@, var_name, Append(DictGetOr(@, var_name, <<>>), finding))]

\* _case_mismatched_attr_names from the i-th expected key on: (actual, expected)
RECURSIVE CaseMismatchesFrom(_, _, _)
CaseMismatchesFrom(i, attrs, expected_keys) ==
    IF i > Len(expected_keys) THEN <<>>
    ELSE LET expected == expected_keys[i]
             candidates == SelectSeq([k \in DOMAIN attrs |-> attrs[k][1]],
                                     LAMBDA name : lower(name) = lower(expected))
         IN  (IF DictHas(attrs, expected) THEN <<>>
              ELSE [k \in DOMAIN SelectSeq(candidates, LAMBDA c : c # expected) |->
                       <<SelectSeq(candidates, LAMBDA c : c # expected)[k], expected>>])
             \o CaseMismatchesFrom(i + 1, attrs, expected_keys)

\* A mutant of case_mismatched_attr_names: the canonical key's presence is not
\* looked at.
case_mismatched_attr_names_always(attrs, expected_keys) ==
    LET Pairs(expected) ==
            LET others == SelectSeq([k \in DOMAIN attrs |-> attrs[k][1]],
                                    LAMBDA name : lower(name) = lower(expected) /\ name # expected)
            IN  [k \in DOMAIN others |-> <<others[k], expected>>]
        RECURSIVE From(_)
        From(i) == IF i > Len(expected_keys) THEN <<>> ELSE Pairs(expected_keys[i]) \o From(i + 1)
    IN  From(1)

\* _case_mismatched_attr_names
case_mismatched_attr_names(attrs, expected_keys) == CaseMismatchesFrom(1, attrs, expected_keys)

AttrCaseFinding(mismatch) ==
    [Finding("WARN", "attr_case_mismatch", <<>>, Str(mismatch[1]), Str(mismatch[2]))
        EXCEPT !.convention = "cf"]

\* The loops of _apply_cf_attribute_case_checks: the mismatches of the i-th
\* variable of the dict on, appended one by one.
RECURSIVE AppendAll(_, _, _, _, _)
AppendAll(k, findings, name, on_coord, found) ==
    IF k > Len(findings) THEN found
    ELSE AppendAll(k + 1, findings, name, on_coord,
             IF on_coord THEN append_coordinate_finding(found, name, findings[k])
             ELSE append_variable_finding(found, name, findings[k]))

RECURSIVE AttrCaseChecksFrom(_, _, _, _)
AttrCaseChecksFrom(i, variables, on_coord, found) ==
    IF i > Len(variables) THEN found
    ELSE LET mismatches == case_mismatched_attr_names(variables[i][2].attrs, CF_ATTR_CASE_KEYS)
         IN  AttrCaseChecksFrom(i + 1, variables, on_coord,
                 AppendAll(1, [k \in DOMAIN mismatches |-> AttrCaseFinding(mismatches[k])],
                           variables[i][1], on_coord, found))

\* _apply_cf_attribute_case_checks
apply_cf_attribute_case_checks(d, found) ==
    AttrCaseChecksFrom(1, d.data_vars, FALSE, AttrCaseChecksFrom(1, d.coords, TRUE, found))

\* _time_coord_candidates: the dimensions classified as time that have a
\* coordinate, and the coordinates named time or t or with standard_name time
\* or axis T; sorted.
time_coord_candidates(d) ==
    sorted_strs(
        {d.sizes[i][1] : i \in {k \in DOMAIN d.sizes :
            guess_axis_for_dim(d, d.sizes[k][1]) = "time" /\ DictHas(d.coords, d.sizes[k][1])}}
        \cup {d.coords[i][1] : i \in {k \in DOMAIN d.coords :
            LET attrs == d.coords[k][2].attrs
            IN  \/ lower(strip(d.coords[k][1])) \in {s_time, s_t}
                \/ lower(strip(py_str(DictGetOr(attrs, s_standard_name, Str(<<>>))))) = s_time
                \/ upper(strip(py_str(DictGetOr(attrs, s_axis, Str(<<>>))))) = s_T}})

\* _first_non_null_value of an object array
first_non_null_value(values) ==
    LET present == SelectSeq(values, LAMBDA v : v.k \in {"str", "num"})
    IN  IF present = <<>> THEN NoneVal ELSE present[1]

\* _time_value_type; an object array of the model holds str, int or None.
time_value_type(dtype, values) ==
    CASE dtype = "datetime64" -> "datetime64"
      [] dtype = "float64" -> "float"
      [] dtype = "int64" -> "int"
      [] dtype = "str" -> "string"
      [] OTHER -> LET sample == first_non_null_value(values)
                  IN  CASE sample.k = "num" -> "int"
                        [] sample.k = "str" -> "string"
                        [] OTHER -> dtype

\* _is_time_decoded_by_xarray
is_time_decoded_by_xarray(dtype, values) == dtype = "datetime64"

TimeFinding(item) ==
    [Finding("ERROR", item, <<>>, NoneVal, NoneVal) EXCEPT !.convention = "cf"]

\* The loop of _apply_cf_time_units_and_type_checks from the i-th candidate on.
RECURSIVE TimeChecksFrom(_, _, _, _)
TimeChecksFrom(i, names, d, found) ==
    IF i > Len(names) THEN found
    ELSE LET coord == DictAt(d.coords, names[i])
             value_type == time_value_type(coord.dtype, coord.values)
             decoded == is_time_decoded_by_xarray(coord.dtype, coord.values)
             attr_units == DictGet(coord.attrs, s_units)
             units == IF attr_units = NoneVal THEN DictGet(coord.encoding, s_units) ELSE attr_units
         IN  TimeChecksFrom(i + 1, names, d,
                 IF decoded THEN found
                 ELSE IF value_type \notin {"int", "float"}
                 THEN append_coordinate_finding(found, names[i], TimeFinding("time_coord_type_invalid"))
                 ELSE IF units = NoneVal
                 THEN append_coordinate_finding(found, names[i], TimeFinding("time_coord_units_missing"))
                 ELSE IF ~TIME_UNITS_RE_match(py_str(units))
                 THEN append_coordinate_finding(found, names[i],
                                                TimeFinding("time_coord_units_format_invalid"))
                 ELSE found)

\* _apply_cf_time_units_and_type_checks
apply_cf_time_units_and_type_checks(d, found) ==
    TimeChecksFrom(1, time_coord_candidates(d), d, found)

\* A mutant of fill_value_sources: the encoding is not looked at.
fill_value_sources_attrs_only(coord) ==
    IF DictGet(coord.attrs, s_FillValue) # NoneVal
    THEN <<(<<"attrs", DictGet(coord.attrs, s_FillValue)>>)>> ELSE <<>>

\* The _FillValue sources of a coordinate in _apply_ferret_convention_checks:
\* (where, value) for attrs and encoding.
fill_value_sources(coord) ==
    (IF DictGet(coord.attrs, s_FillValue) # NoneVal
     THEN <<(<<"attrs", DictGet(coord.attrs, s_FillValue)>>)>> ELSE <<>>)
    \o (IF DictHas(coord.encoding, s_FillValue) /\ DictGet(coord.encoding, s_FillValue) # NoneVal
        THEN <<(<<"encoding", DictGet(coord.encoding, s_FillValue)>>)>> ELSE <<>>)

\* The loop of _apply_ferret_convention_checks from the i-th coordinate on.
RECURSIVE ApplyFerretFrom(_, _, _)
ApplyFerretFrom(i, d, found) ==
    IF i > Len(d.coords) THEN found
    ELSE LET sources == fill_value_sources(d.coords[i][2])
         IN  ApplyFerretFrom(i + 1, d,
                 IF sources = <<>> THEN found
                 ELSE append_coordinate_finding(found, d.coords[i][1],
                          [Finding("FATAL", "coord_fillvalue_forbidden", <<>>, List(sources),
                                   NoneVal) EXCEPT !.convention = "ferret"]))

\* _apply_ferret_convention_checks
apply_ferret_convention_checks(d, found) == ApplyFerretFrom(1, d, found)

\* _apply_selected_convention_checks
apply_selected_convention_checks(d, found, conventions) ==
    LET after_cf == IF s_cf \in SeqRange(conventions)
                    THEN apply_cf_time_units_and_type_checks(d, apply_cf_attribute_case_checks(d, found))
                    ELSE found
    IN  IF s_ferret \in SeqRange(conventions)
        THEN apply_ferret_convention_checks(d, after_cf) ELSE after_cf

\* Every finding of a report: those of the coordinates, of the variables and
\* the global ones.
AllFindings(found) ==
    LET RECURSIVE Flat(_, _)
        Flat(entries, i) == IF i > Len(entries) THEN <<>> ELSE entries[i][2] \o Flat(entries, i + 1)
    IN  Flat(found.coordinates, 1) \o Flat(found.variables, 1) \o found.global

\* A mutant of recompute_counts: the counts a report carries are kept.
recompute_counts_kept(found) ==
    IF "counts" \in DOMAIN found THEN found
    ELSE [counts |-> [fatal |-> 0, error |-> 0, warn |-> 0]] @@ found

\* _recompute_counts (the severities of the model are upper case already)
recompute_counts(found) ==
    [counts |-> [fatal |-> CountOf(AllFindings(found), "FATAL"),
                 error |-> CountOf(AllFindings(found), "ERROR"),
                 warn |-> CountOf(AllFindings(found), "WARN")]] @@ found

s_note_table ==
    <<"C", "o", "u", "l", "d", " ", "n", "o", "t", " ", "r", "e", "a", "d", " ", "t", "a", "b", "l", "e">>
s_note_checker ==
    <<"c", "f", "c", "h", "e", "c", "k", "e", "r", " ", "c", "o", "u", "l", "d", " ", "n", "o", "t", " ",
      "r", "u", "n">>
s_note_skipped == <<"C", "F", " ", "c", "h", "e", "c", "k", "s", " ", "s", "k", "i", "p", "p", "e", "d">>

\* standard_names.py augment_issues_with_standard_name_suggestions: it fills
\* issues["suggestions"], which the model leaves out, and adds a note when the
\* standard-name table cannot be read; table is "none", "ok" or "unreadable".
augment_issues_with_standard_name_suggestions(found, table) ==
    IF table = "unreadable" THEN [found EXCEPT !.notes = Append(@, s_note_table)] ELSE found

\* The heuristic branch of check_dataset_compliant: the heuristic report with
\* the standard-name suggestions added.
heuristic_report(d, args) ==
    augment_issues_with_standard_name_suggestions(
        heuristic_check_dataset(d, format_cf_version(args.cf_version)), args.table)

\* The fallback of check_dataset_compliant when the external checker raised:
\* the heuristic report with the checker's error recorded.
fallback_report(args, heuristic) ==
    [checker_error |-> [type |-> args.checker.type, message |-> args.checker.message]]
    @@ [heuristic EXCEPT !.engine_status = "unavailable", !.notes = Append(@, s_note_checker)]

\* A mutant of choose_base_report: the fallback is taken whatever
\* fallback_to_heuristic says.
choose_base_report_always_fallback(d, args, selected_conventions, selected_engine, heuristic) ==
    IF s_cf \notin SeqRange(selected_conventions)
    THEN [raises |-> FALSE, type |-> "", log |-> <<>>,
          value |-> [empty_report(args.cf_version) EXCEPT !.notes = Append(@, s_note_skipped)]]
    ELSE IF selected_engine = s_heuristic
    THEN [raises |-> FALSE, type |-> "", log |-> <<"heuristic">>, value |-> heuristic]
    ELSE IF ~args.checker.raises
    THEN [raises |-> FALSE, type |-> "", log |-> <<"cfchecker">>,
          value |-> augment_issues_with_standard_name_suggestions(
                        translate_cfchecker_results(args.checker.results, args.cf_version, d),
                        args.table)]
    ELSE [raises |-> FALSE, type |-> "", log |-> <<"cfchecker", "heuristic">>,
          value |-> fallback_report(args, heuristic)]

\* The engine branch of check_dataset_compliant after the arguments are
\* normalized.  checker is what the external checker does on the dataset:
\* [raises, type, message, results]; heuristic is the report the heuristic
\* branch gives when it is taken.
choose_base_report(d, args, selected_conventions, selected_engine, heuristic) ==
    IF s_cf \notin SeqRange(selected_conventions)
    THEN [raises |-> FALSE, type |-> "", log |-> <<>>,
          value |-> [empty_report(args.cf_version) EXCEPT !.notes = Append(@, s_note_skipped)]]
    ELSE IF selected_engine = s_heuristic
    THEN [raises |-> FALSE, type |-> "", log |-> <<"heuristic">>, value |-> heuristic]
    ELSE IF ~args.checker.raises
    THEN [raises |-> FALSE, type |-> "", log |-> <<"cfchecker">>,
          value |-> augment_issues_with_standard_name_suggestions(
                        translate_cfchecker_results(args.checker.results, args.cf_version, d),
                        args.table)]
    ELSE IF ~args.fallback_to_heuristic
    THEN [raises |-> TRUE, type |-> args.checker.type, log |-> <<"cfchecker">>, value |-> <<>>]
    ELSE [raises |-> FALSE, type |-> "", log |-> <<"cfchecker", "heuristic">>,
          value |-> fallback_report(args, heuristic)]

\* The base report of the selected engine.
base_report(d, args, selected_conventions, selected_engine) ==
    choose_base_report(d, args, selected_conventions, selected_engine, heuristic_report(d, args))

\* What a call that raises gives back.
Raises(type, invoked) == [raises |-> TRUE, type |-> type, log |-> invoked, value |-> <<>>]

\* The end of check_dataset_compliant: the convention checks on the base
\* report, then the counts.
finish_report(d, chosen, selected_conventions, selected_engine) ==
    IF chosen.raises THEN chosen
    ELSE [chosen EXCEPT !.value = recompute_counts(apply_selected_convention_checks(d,
              [conventions_checked |-> selected_conventions,
               engine_requested |-> selected_engine] @@ chosen.value,
              selected_conventions))]

\* The argument checks of check_dataset_compliant, given what the normalizers
\* returned; the base report is made when they all pass.
validated_report(d, args, resolved_format, selected_conventions, selected_engine) ==
    IF resolved_format.raises THEN Raises("ValueError", <<>>)
    ELSE IF args.report_html_file /\ resolved_format.value # s_html
    THEN Raises("ValueError", <<>>)
    ELSE IF selected_conventions.raises THEN Raises("ValueError", <<>>)
    ELSE IF selected_engine.raises THEN Raises("ValueError", <<>>)
    ELSE finish_report(d, base_report(d, args, selected_conventions.value, selected_engine.value),
                       selected_conventions.value, selected_engine.value)

\* check_dataset_compliant: [raises, type, log, value], value being the issues
\* dict that is returned, rendered or printed as the resolved format says.
check_dataset_compliant(d, args) ==
    validated_report(d, args, normalize_report_format(args.report_format, args.environment),
                     normalize_requested_conventions(args.conventions),
                     normalize_requested_engine(args.engine))

----------------------------------------------------------------------------
(* The entry points of the coverage checks and the accessor's all().       *)

\* ocean.py check_ocean_cover on a dataset whose one gridded variable is a
check_ocean_cover(a, args) ==
    LET resolved_format == normalize_report_format(args.report_format, args.environment)
    IN  IF resolved_format.raises THEN Raises("ValueError", <<>>)
        ELSE IF args.report_html_file /\ resolved_format.value # s_html
        THEN Raises("ValueError", <<>>)
        ELSE [raises |-> FALSE, type |-> "", log |-> <<"ocean_cover">>,
              value |-> single_ocean_report(a, args.time_name, args.check_edge_of_map,
                                            args.check_land_ocean_offset)]

\* ocean.py check_time_cover on a dataset whose one variable is a
check_time_cover(a, args) ==
    LET resolved_format == normalize_report_format(args.report_format, args.environment)
    IN  IF resolved_format.raises THEN Raises("ValueError", <<>>)
        ELSE IF args.report_html_file /\ resolved_format.value # s_html
        THEN Raises("ValueError", <<>>)
        ELSE [raises |-> FALSE, type |-> "", log |-> <<"time_cover">>,
              value |-> single_time_cover_report(a, args.time_name)]

\* A data variable of a dataset whose coordinates lat and lon are 1-D: its
\* dims and its cells as a DataArray, which has one position along lat or lon
\* when the variable lacks that dimension.
DataVar(dims, array) == [dims |-> dims, array |-> array]

\* ocean.py _choose_data_vars; var_name is <<>> for None.
choose_data_vars(data_vars, var_name, lon_dim, lat_dim) ==
    LET Gridded(v) == lon_dim \in SeqRange(v.dims) /\ lat_dim \in SeqRange(v.dims)
        selected == SelectSeq(data_vars, LAMBDA entry : Gridded(entry[2]))
    IN  IF var_name # <<>>
        THEN IF ~DictHas(data_vars, var_name) THEN [raises |-> TRUE, value |-> <<>>]
             ELSE IF ~Gridded(DictAt(data_vars, var_name)) THEN [raises |-> TRUE, value |-> <<>>]
             ELSE [raises |-> FALSE, value |-> <<(<<var_name, DictAt(data_vars, var_name)>>)>>]
        ELSE IF selected # <<>> THEN [raises |-> FALSE, value |-> selected]
        ELSE [raises |-> TRUE, value |-> <<>>]

\* ocean.py _choose_time_vars
choose_time_vars(data_vars, var_name) ==
    IF var_name # <<>>
    THEN IF ~DictHas(data_vars, var_name) THEN [raises |-> TRUE, value |-> <<>>]
         ELSE [raises |-> FALSE, value |-> <<(<<var_name, DictAt(data_vars, var_name)>>)>>]
    ELSE IF data_vars = <<>> THEN [raises |-> TRUE, value |-> <<>>]
    ELSE [raises |-> FALSE, value |-> data_vars]

\* A mutant of all_variables_report: ok is that of the first report.
all_variables_report_first_ok(reports) ==
    [mode |-> "all_variables",
     checked_variable_count |-> Len(reports),
     checked_variables |-> [i \in DOMAIN reports |-> reports[i][1]],
     reports |-> reports,
     ok |-> reports[1][2].ok]

\* The report of check_ocean_cover and of check_time_cover on several
\* variables; reports is the dict from name to per-variable report.
all_variables_report(reports) ==
    [mode |-> "all_variables",
     checked_variable_count |-> Len(reports),
     checked_variables |-> [i \in DOMAIN reports |-> reports[i][1]],
     reports |-> reports,
     ok |-> \A i \in DOMAIN reports : reports[i][2].ok]

\* The end of both checks: the report itself when there is one, the aggregate
\* otherwise.
cover_report_of(reports) ==
    IF Len(reports) = 1 THEN reports[1][2] ELSE all_variables_report(reports)

\* The per-variable reports of check_ocean_cover, given the chosen variables
ocean_reports_of(chosen, args) ==
    IF chosen.raises THEN Raises("ValueError", <<>>)
    ELSE [raises |-> FALSE, type |-> "", log |-> <<"ocean_cover">>,
          value |-> cover_report_of(
              [i \in DOMAIN chosen.value |->
                  <<chosen.value[i][1],
                    single_ocean_report(chosen.value[i][2].array, args.time_name,
                                        args.check_edge_of_map, args.check_land_ocean_offset)>>])]

\* The per-variable reports of check_time_cover, given the chosen variables
time_cover_reports_of(chosen, args) ==
    IF chosen.raises THEN Raises("ValueError", <<>>)
    ELSE [raises |-> FALSE, type |-> "", log |-> <<"time_cover">>,
          value |-> cover_report_of(
              [i \in DOMAIN chosen.value |->
                  <<chosen.value[i][1],
                    single_time_cover_report(chosen.value[i][2].array, args.time_name)>>])]

\* ocean.py check_ocean_cover on a dataset with the coordinates lat and lon,
\* given what normalize_report_format returned
ocean_cover_of(data_vars, args, resolved_format) ==
    IF resolved_format.raises THEN Raises("ValueError", <<>>)
    ELSE IF args.report_html_file /\ resolved_format.value # s_html
    THEN Raises("ValueError", <<>>)
    ELSE ocean_reports_of(choose_data_vars(data_vars, args.var_name, s_lon, s_lat), args)

check_ocean_cover_of_dataset(data_vars, args) ==
    ocean_cover_of(data_vars, args,
                   normalize_report_format(args.report_format, args.environment))

\* ocean.py check_time_cover on a dataset, given what normalize_report_format
\* returned
time_cover_of(data_vars, args, resolved_format) ==
    IF resolved_format.raises THEN Raises("ValueError", <<>>)
    ELSE IF args.report_html_file /\ resolved_format.value # s_html
    THEN Raises("ValueError", <<>>)
    ELSE time_cover_reports_of(choose_time_vars(data_vars, args.var_name), args)

check_time_cover_of_dataset(data_vars, args) ==
    time_cover_of(data_vars, args,
                  normalize_report_format(args.report_format, args.environment))

\* accessor.py _status_kind of a check's status
status_kind(status) ==
    CASE status \in {"pass", "passed", "ok", "success", "true"} -> "pass"
      [] status \in {"fail", "failed", "error", "fatal", "false"} -> "fail"
      [] status \in {"skip", "skipped", "skipped_non_global", "skipped_no_time"} -> "skip"
      [] OTHER -> "warn"

\* A mutant of combine_statuses: a warning counts as a pass.
combine_statuses_fail_or_pass(statuses) ==
    IF \E i \in DOMAIN statuses : statuses[i] = "fail" THEN "fail" ELSE "pass"

\* accessor.py _combine_statuses
combine_statuses(statuses) ==
    IF \E i \in DOMAIN statuses : statuses[i] = "fail" THEN "fail"
    ELSE IF \E i \in DOMAIN statuses : statuses[i] = "warn" THEN "warn"
    ELSE "pass"

\* accessor.py _status_from_compliance_report (a report of
\* check_dataset_compliant carries counts)
status_from_compliance_report(r) ==
    IF "checker_error" \in DOMAIN r THEN "fail"
    ELSE IF r.counts.fatal + r.counts.error > 0 THEN "fail"
    ELSE IF r.counts.warn > 0 THEN "warn"
    ELSE "pass"

\* accessor.py _status_from_ocean_report and _status_from_time_cover_report of
\* a per-variable report
status_from_ocean_report(r) ==
    combine_statuses(<<status_kind(r.edge_of_map.status), status_kind(r.land_ocean_offset.status)>>)

status_from_time_cover_report(r) == combine_statuses(<<status_kind(r.time_missing.status)>>)

\* The arguments all() hands to each check: report_format="python".
python_args(args) == [args EXCEPT !.report_format = s_python, !.report_html_file = FALSE]

\* The reports dict of all(): one entry per enabled check.
enabled_reports(args, compliance, ocean, time) ==
    (IF args.compliance THEN <<(<<"compliance", compliance.value>>)>> ELSE <<>>)
    \o (IF args.ocean_cover THEN <<(<<"ocean_cover", ocean.value>>)>> ELSE <<>>)
    \o (IF args.time_cover THEN <<(<<"time_cover", time.value>>)>> ELSE <<>>)

\* The check_summary list of all()
check_summary_of(reports) ==
    [i \in DOMAIN reports |->
        [check |-> reports[i][1],
         status |-> CASE reports[i][1] = "compliance" -> status_from_compliance_report(reports[i][2])
                      [] reports[i][1] = "ocean_cover" -> status_from_ocean_report(reports[i][2])
                      [] OTHER -> status_from_time_cover_report(reports[i][2])]]

\* The summary dict of all()
summary_of(check_summary, overall_status) ==
    [checks_run |-> Len(check_summary),
     failing_checks |-> Cardinality({i \in DOMAIN check_summary : check_summary[i].status = "fail"}),
     warnings_or_skips |-> Cardinality({i \in DOMAIN check_summary : check_summary[i].status = "warn"}),
     overall_status |-> overall_status,
     overall_ok |-> overall_status = "pass"]

\* The full report of all()
full_report(args, reports, check_summary) ==
    [checks_enabled |-> [compliance |-> args.compliance, ocean_cover |-> args.ocean_cover,
                         time_cover |-> args.time_cover],
     check_summary |-> check_summary,
     reports |-> reports,
     summary |-> summary_of(check_summary,
                            combine_statuses([i \in DOMAIN check_summary |-> check_summary[i].status]))]

\* all() once its own arguments are accepted: the enabled checks run in the
\* order compliance, ocean_cover, time_cover, and an exception of one ends it.
run_enabled_checks(args, reports, compliance, ocean, time) ==
    IF compliance.raises THEN compliance
    ELSE [raises |-> FALSE, type |-> "",
          log |-> compliance.log \o (IF args.ocean_cover THEN ocean.log ELSE <<>>)
                      \o (IF args.time_cover THEN time.log ELSE <<>>),
          value |-> full_report(args, reports, check_summary_of(reports))]

\* all() given what each check does with the arguments handed to it
all_of(args, resolved_format, compliance, ocean, time) ==
    IF resolved_format.raises THEN Raises("ValueError", <<>>)
    ELSE IF args.report_html_file /\ resolved_format.value # s_html
    THEN Raises("ValueError", <<>>)
    ELSE IF ~(args.compliance \/ args.ocean_cover \/ args.time_cover)
    THEN Raises("ValueError", <<>>)
    ELSE run_enabled_checks(args, enabled_reports(args, compliance, ocean, time),
                            compliance, ocean, time)

\* accessor.py CFCoercerAccessor.all
all(d, a, args) ==
    all_of(args, normalize_report_format(args.report_format, args.environment),
           IF args.compliance THEN check_dataset_compliant(d, python_args(args))
           ELSE [raises |-> FALSE, type |-> "", log |-> <<>>, value |-> <<>>],
           check_ocean_cover(a, python_args(args)), check_time_cover(a, python_args(args)))

----------------------------------------------------------------------------
(* Specifications.                                                         *)

RangesIdle == indices = <<>> /\ ranges = <<>>
MetaIdle == ds = EmptyDataset /\ dim = <<>> /\ axis = "none" /\ out = EmptyDataset /\ issues = <<>>
CoverIdle == da = <<>> /\ report = <<>>
CallIdle == call = <<>> /\ log = <<>> /\ raised = "" /\ argv = <<>> /\ exit_status = -1

InitRanges ==
    /\ pc = "input"
    /\ indices \in SeqsUpTo(0..MaxIdx, MaxLen) \cup ExampleIndices
    /\ ranges = <<>>
    /\ MetaIdle
    /\ CoverIdle
    /\ CallIdle

\* A caller compresses its index list.
Compress ==
    /\ pc = "input"
    /\ ranges' = indices_to_ranges(indices)
    /\ pc' = "compressed"
    /\ UNCHANGED <<indices, metaVars, coverVars, callVars>>

NextRanges == Compress

SpecRanges == InitRanges /\ [][NextRanges]_vars

\* Inputs of the classifier: a dataset with one dimension, without a coordinate
\* or with one carrying any of these standard_name and units attributes.
AxisDimNames ==
    {s_time, s_T, s_Time, s_lat, s_LAT, s_y, s_lon, s_lon_padded, s_x, s_xcoord, s_ycoord, s_station}
AxisStandardNames ==
    {NoneVal, Str(s_latitude), Str(s_Latitude), Str(s_longitude), Str(s_time), Str(s_time_padded)}
AxisUnits ==
    {NoneVal, Str(s_degrees_north), Str(s_degrees_east), Str(s_Degrees_East), Str(s_K), Num(1)}

\* The attrs dict holding the given standard_name and units, None meaning absent.
AxisAttrs(standard_name, units) ==
    (IF standard_name = NoneVal THEN <<>> ELSE <<(<<s_standard_name, standard_name>>)>>)
        \o (IF units = NoneVal THEN <<>> ELSE <<(<<s_units, units>>)>>)

AxisDatasets ==
    {Dataset(<<(<<dm, 2>>)>>, <<>>, <<>>, <<>>) : dm \in AxisDimNames}
    \cup {Dataset(<<(<<dm, 2>>)>>,
                  <<(<<dm, Variable(<<dm>>, "float64", <<>>, AxisAttrs(sn, un), <<>>)>>)>>,
                  <<>>, <<>>) :
            dm \in AxisDimNames, sn \in AxisStandardNames, un \in AxisUnits}

InitAxis ==
    /\ pc = "input"
    /\ ds \in AxisDatasets
    /\ dim = DimsOf(ds)[1]
    /\ axis = "none"
    /\ out = EmptyDataset
    /\ issues = <<>>
    /\ RangesIdle
    /\ CoverIdle
    /\ CallIdle

\* A caller classifies the dimension.
GuessAxis ==
    /\ pc = "input"
    /\ axis' = guess_axis_for_dim(ds, dim)
    /\ pc' = "guessed"
    /\ UNCHANGED <<ds, dim, out, issues, rangeVars, coverVars, callVars>>

NextAxis == GuessAxis

SpecAxis == InitAxis /\ [][NextAxis]_vars

\* Inputs of the fixer: a dataset of one or two dimensions and one data variable
\* over them.  A dimension has no coordinate or one of the array variants below
\* with one of the attrs dicts; a coordinate classified as time holds numbers or
\* datetimes.
s_temp == <<"t", "e", "m", "p">>
s_Standard_Name == <<"S", "t", "a", "n", "d", "a", "r", "d", "_", "N", "a", "m", "e">>
s_UNITS == <<"U", "N", "I", "T", "S">>
s_Units == <<"U", "n", "i", "t", "s">>
s_Axis == <<"A", "x", "i", "s">>

FixDimNames == {s_lat, s_lon_padded, s_time, s_station}

FixArrays ==
    {[dtype |-> "float64", values |-> <<Num(0), Num(91)>>, encoding |-> <<>>],
     [dtype |-> "float64", values |-> <<NaN, Num(1)>>, encoding |-> <<>>],
     [dtype |-> "str", values |-> <<Str(<<"1">>), Str(<<"2", "0">>)>>, encoding |-> <<>>],
     [dtype |-> "str", values |-> <<Str(<<"a">>)>>, encoding |-> <<>>],
     [dtype |-> "datetime64", values |-> <<Num(0), Num(1)>>,
      encoding |-> <<(<<s_units, Str(s_days_since_2000)>>)>>]}

FixAttrs ==
    {<<>>,
     <<(<<s_standard_name, Str(s_latitude)>>)>>,
     <<(<<s_Standard_Name, Str(s_Latitude)>>)>>,
     <<(<<s_UNITS, Str(s_degrees_north)>>), (<<s_Units, Str(s_degrees_east)>>)>>,
     <<(<<s_standard_name, Str(s_time)>>), (<<s_axis, Str(s_X)>>)>>,
     <<(<<s_units, Str(s_degrees_east)>>), (<<s_UNITS, Str(s_K)>>), (<<s_FillValue, Num(0)>>)>>,
     <<(<<s_standard_name, Str(s_longitude)>>), (<<s_long_name, Str(s_lon)>>)>>,
     <<(<<s_units, Str(s_days_since_2000)>>), (<<s_Axis, Str(s_T)>>)>>}

\* What a dimension brings to a dataset: its size and its coordinate, if any.
FixDims ==
    {[name |-> dm, size |-> 2, coords |-> <<>>] : dm \in FixDimNames}
    \cup {[name |-> dm, size |-> Len(a.values),
           coords |-> <<(<<dm, Variable(<<dm>>, a.dtype, a.values, at, a.encoding)>>)>>] :
            dm \in FixDimNames, a \in FixArrays, at \in FixAttrs}

FixSecondDims ==
    {x \in FixDims : x.coords = <<>> \/ (x.coords[1][2].dtype = "float64"
                                          /\ x.coords[1][2].values[1] = Num(0)
                                          /\ Len(x.coords[1][2].attrs) <= 1)}

FixDataset(xs) ==
    Dataset([i \in DOMAIN xs |-> <<xs[i].name, xs[i].size>>],
            IF Len(xs) = 1 THEN xs[1].coords ELSE xs[1].coords \o xs[2].coords,
            <<(<<s_temp, Variable([i \in DOMAIN xs |-> xs[i].name], "float64", <<>>,
                                  <<(<<s_Units, Str(s_K)>>)>>, <<>>)>>)>>,
            <<>>)

\* Datasets with a _FillValue on their coordinates: a dimension time with or
\* without its coordinate, a dimension lat without coordinate, a coordinate depth
\* on the time dimension and the data variable temp, which has a _FillValue too.
s_depth == <<"d", "e", "p", "t", "h">>
s_note == <<"n", "o", "t", "e">>

FillValueAttrs == {<<>>, <<(<<s_FillValue, Num(-9999)>>), (<<s_Units, Str(s_K)>>)>>}

FillValueEncodings ==
    {<<>>, <<(<<s_FillValue, Num(-9999)>>)>>,
     <<(<<s_units, Str(s_days_since_2000)>>), (<<s_FillValue, NoneVal>>)>>}

FillValueDatasets ==
    {Dataset(<<(<<s_time, 1>>), (<<s_lat, 1>>)>>,
             (IF has_time
              THEN <<(<<s_time, Variable(<<s_time>>, "int64", <<Num(0)>>, <<>>,
                                         <<(<<s_FillValue, Num(-9999)>>)>>)>>)>>
              ELSE <<>>)
                 \o <<(<<s_depth, Variable(<<s_time>>, "float64", <<Num(0)>>, at, en)>>)>>,
             <<(<<s_temp, Variable(<<s_time, s_lat>>, "float64", <<>>,
                                   <<(<<s_Units, Str(s_K)>>), (<<s_FillValue, Num(-9999)>>),
                                     (<<s_note, Str(s_temp)>>)>>,
                                   <<(<<s_FillValue, Num(-9999)>>)>>)>>)>>,
             <<>>) :
        has_time \in BOOLEAN, at \in FillValueAttrs, en \in FillValueEncodings}

FixDatasets ==
    {d \in {FixDataset(<<x>>) : x \in FixDims}
            \cup {FixDataset(<<p[1], p[2]>>) :
                        p \in {q \in FixDims \X FixSecondDims : q[1].name # q[2].name}} :
        \A i \in DOMAIN d.coords :
            d.coords[i][2].dtype = "str"
                => guess_axis_for_dim([d EXCEPT !.coords = NormalizeAll(@)], d.coords[i][1]) # "time"}
    \cup FillValueDatasets

InitFix ==
    /\ pc = "input"
    /\ ds \in FixDatasets
    /\ dim = <<>>
    /\ axis = "none"
    /\ out = EmptyDataset
    /\ issues = <<>>
    /\ RangesIdle
    /\ CoverIdle
    /\ CallIdle

\* A caller asks for the compliant copy; lat or lon texts that are no numbers
\* make the call raise.  ds is the caller's dataset after the call: what was
\* written to it if the function worked on it, the same as before otherwise.
Fix ==
    /\ pc = "input"
    /\ IF make_dataset_compliant_raises(ds)
       THEN pc' = "raised" /\ out' = out
       ELSE pc' = "fixed" /\ out' = make_dataset_compliant_out(ds)
    /\ ds' = IF copy_deep("input") = "input" THEN make_dataset_compliant_written(ds) ELSE ds
    /\ UNCHANGED <<dim, axis, issues, rangeVars, coverVars, callVars>>

\* The caller validates the compliant copy.
Revalidate ==
    /\ pc = "fixed"
    /\ issues' = heuristic_check_dataset(out, CF_VERSION)
    /\ pc' = "revalidated"
    /\ UNCHANGED <<ds, dim, axis, out, rangeVars, coverVars, callVars>>

NextFix == Fix \/ Revalidate

SpecFix == InitFix /\ [][NextFix]_vars

\* Inputs of the validator, first kind: one dimension named lat, lon or time
\* whose coordinate is a number array of 2..MaxCoordLen elements over the values
\* around the range limits, NaN and the infinities (an int64 array holds numbers
\* only), or the five latitudes of the example.
MaxCoordLen == 2

RangeValues == {Num(-181), Num(-180), Num(-91), Num(-90), Num(0), Num(90), Num(91), Num(360),
                Num(361), NaN, PosInf, NegInf}

ExampleLatitudes == <<Num(-91), Num(-90), Num(0), Num(90), Num(91)>>

RangeArrays ==
    {a \in UNION {[1..k -> RangeValues] : k \in 2..MaxCoordLen} \cup {ExampleLatitudes} : TRUE}

RangeDatasets ==
    {Dataset(<<(<<dm, Len(a)>>)>>, <<(<<dm, Variable(<<dm>>, dtype, a, <<>>, <<>>)>>)>>, <<>>, <<>>) :
        dm \in {s_lat, s_lon, s_time},
        dtype \in {"float64"},
        a \in RangeArrays}
    \cup {Dataset(<<(<<dm, Len(a)>>)>>, <<(<<dm, Variable(<<dm>>, "int64", a, <<>>, <<>>)>>)>>, <<>>, <<>>) :
        dm \in {s_lat, s_lon, s_time},
        a \in {b \in RangeArrays : \A i \in DOMAIN b : b[i].k = "num"}}

\* Second kind: coordinates lat and lon and the data variable temp over them,
\* the data variable or the lat coordinate carrying one or two of the reference
\* attributes.
s_ghost == <<"g", "h", "o", "s", "t">>
s_abc == <<"a", "b", "c">>
s_area_colon == <<"a", "r", "e", "a", ":">>
s_volume_colon == <<"v", "o", "l", "u", "m", "e", ":">>
s_area == <<"a", "r", "e", "a">>

ReferenceValues ==
    {Str(s_lat \o <<" ">> \o s_lon \o <<" ">> \o s_ghost),
     Str(s_lat \o <<" ">> \o s_lon),
     Str(<<>>),
     Str(s_ghost \o <<" ", " ">> \o s_abc \o <<" ">> \o s_ghost),
     Str(<<" ">> \o s_temp \o <<"\t">> \o s_lat \o <<"\n">>),
     Num(1),
     Str(s_area_colon \o <<" ">> \o s_lat),
     Str(s_area_colon \o <<" ">> \o s_ghost \o <<" ">> \o s_volume_colon \o <<" ">> \o s_lon),
     Str(s_area \o <<" ">> \o s_lat),
     Str(s_area_colon \o <<" ">> \o s_lat \o <<" ">> \o s_volume_colon),
     Str(s_area_colon \o <<" ">> \o s_volume_colon)}

SecondReferenceValues == {Str(s_lat \o <<" ">> \o s_ghost), Num(1), Str(s_area_colon \o <<" ">> \o s_abc)}

ReferenceAttrs ==
    {<<(<<REFERENCE_ATTRS[i], v>>)>> : i \in DOMAIN REFERENCE_ATTRS, v \in ReferenceValues}
    \cup {<<(<<REFERENCE_ATTRS[ij[1]], v>>), (<<REFERENCE_ATTRS[ij[2]], w>>)>> :
            ij \in {x \in (DOMAIN REFERENCE_ATTRS) \X (DOMAIN REFERENCE_ATTRS) : x[1] # x[2]},
            v \in ReferenceValues, w \in SecondReferenceValues}

ReferenceDataset(on_coord, attrs) ==
    Dataset(<<(<<s_lat, 1>>), (<<s_lon, 1>>)>>,
            <<(<<s_lat, Variable(<<s_lat>>, "float64", <<Num(0)>>,
                                 IF on_coord THEN attrs ELSE <<>>, <<>>)>>),
              (<<s_lon, Variable(<<s_lon>>, "float64", <<Num(0)>>, <<>>, <<>>)>>)>>,
            <<(<<s_temp, Variable(<<s_lat, s_lon>>, "float64", <<>>,
                                  IF on_coord THEN <<>> ELSE attrs, <<>>)>>)>>,
            <<>>)

ReferenceDatasets == {ReferenceDataset(c, at) : c \in BOOLEAN, at \in ReferenceAttrs}

\* Third kind: a lat coordinate and a global Conventions attribute: missing, a
\* number, or one or two convention names separated by a comma, a comma and a
\* blank, or a blank.
s_CF_1_6 == <<"C", "F", "-", "1", ".", "6">>
s_cf_1_12 == <<"c", "f", "-", "1", ".", "1", "2">>
s_ACDD == <<"A", "C", "D", "D", "-", "1", ".", "3">>

ConventionNames == {CF_VERSION, s_CF_1_6, s_cf_1_12, s_ACDD}
ConventionSeparators == {<<",">>, <<",", " ">>, <<" ">>}

ConventionsValues ==
    {Str(name) : name \in ConventionNames}
    \cup {Str(first \o sep \o second) :
             first \in ConventionNames, second \in ConventionNames, sep \in ConventionSeparators}
    \cup {Str(<<" ">> \o CF_VERSION \o <<" ">>), Str(<<>>), Num(1)}

ConventionsDatasets ==
    {Dataset(<<(<<s_lat, 2>>)>>,
             <<(<<s_lat, Variable(<<s_lat>>, "float64", <<Num(0), Num(1)>>, <<>>, <<>>)>>)>>,
             <<>>, attrs) :
        attrs \in {<<>>} \cup {<<(<<s_Conventions, v>>)>> : v \in ConventionsValues}}

\* Fourth kind: one dimension time whose coordinate is an array of 1..3
\* elements: float64 over 0, 1, NaN and +inf, datetime64 over two instants and
\* NaT, or texts.
SequenceArrays ==
    {[dtype |-> "float64", values |-> a] :
        a \in UNION {[1..k -> {Num(0), Num(1), NaN, PosInf}] : k \in 1..3}}
    \cup {[dtype |-> "datetime64", values |-> a] :
              a \in UNION {[1..k -> {Num(0), Num(1), NaT}] : k \in 1..3}}
    \cup {[dtype |-> "str", values |-> a] :
              a \in UNION {[1..k -> {Str(<<"a">>), Str(<<"b">>)}] : k \in 1..2}}

SequenceDatasets ==
    {Dataset(<<(<<s_time, Len(a.values)>>)>>,
             <<(<<s_time, Variable(<<s_time>>, a.dtype, a.values, <<>>, <<>>)>>)>>, <<>>, <<>>) :
        a \in SequenceArrays}

\* Fifth kind: one dimension time or lat whose coordinate of numbers or of
\* instants has units in its attributes, in its encoding, in both or in neither.
s_Days_Since == <<"D", "a", "y", "s", " ", " ", "S", "i", "n", "c", "e", " ", "2", "0", "0", "0">>
s_second_since == <<" ", "s", "e", "c", "o", "n", "d", " ", "s", "i", "n", "c", "e", " ", "1", "9", "7", "0">>
s_weeks_since == <<"w", "e", "e", "k", "s", " ", "s", "i", "n", "c", "e", " ", "2", "0", "0", "0">>
s_dayssince == <<"d", "a", "y", "s", "s", "i", "n", "c", "e", " ", "2", "0", "0", "0">>
s_days_since == <<"d", "a", "y", "s", " ", "s", "i", "n", "c", "e">>
s_days == <<"d", "a", "y", "s">>

UnitsValues ==
    {Str(s_days_since_2000), Str(s_Days_Since), Str(s_second_since), Str(s_weeks_since),
     Str(s_dayssince), Str(s_days_since), Str(s_days), Str(s_degrees_north), Str(<<>>), Num(1)}

UnitsAttrs == {<<>>} \cup {<<(<<s_units, v>>)>> : v \in UnitsValues}

UnitsEncodings ==
    {<<>>, <<(<<s_units, Str(s_days_since_2000)>>)>>, <<(<<s_units, Str(s_days)>>)>>}

TimeUnitsDatasets ==
    {Dataset(<<(<<dm, 2>>)>>,
             <<(<<dm, Variable(<<dm>>, dtype, <<Num(0), Num(1)>>, at, en)>>)>>, <<>>, <<>>) :
        dm \in {s_time, s_lat}, dtype \in {"int64", "datetime64"}, at \in UnitsAttrs,
        en \in UnitsEncodings}

\* Sixth kind: a lat coordinate and one data variable over it whose name, dtype
\* and units, standard_name and long_name attributes vary.
VariableNames ==
    {s_temp, <<"t", "_", "2">>, <<"2", "t">>, <<"_", "t">>, <<"t", "-", "2">>, s_temp \o <<"\n">>}

VariableDtypes == {"float64", "int64", "bool", "object", "str"}

VariableAttrs ==
    {(IF has_units THEN <<(<<s_units, Str(s_K)>>)>> ELSE <<>>)
         \o (IF has_standard_name THEN <<(<<s_standard_name, Str(s_temp)>>)>> ELSE <<>>)
         \o (IF has_long_name THEN <<(<<s_long_name, Str(s_temp)>>)>> ELSE <<>>) :
        has_units \in BOOLEAN, has_standard_name \in BOOLEAN, has_long_name \in BOOLEAN}

VariableDatasets ==
    {Dataset(<<(<<s_lat, 2>>)>>,
             <<(<<s_lat, Variable(<<s_lat>>, "float64", <<Num(0), Num(1)>>, <<>>, <<>>)>>)>>,
             <<(<<name, Variable(<<s_lat>>, dtype, <<Num(0), Num(1)>>, attrs, <<>>)>>)>>,
             <<>>) :
        name \in VariableNames, dtype \in VariableDtypes, attrs \in VariableAttrs}

InitValidate ==
    /\ pc = "input"
    /\ ds \in RangeDatasets \cup ReferenceDatasets \cup ConventionsDatasets \cup SequenceDatasets
               \cup TimeUnitsDatasets \cup VariableDatasets
    /\ dim = <<>>
    /\ axis = "none"
    /\ out = EmptyDataset
    /\ issues = <<>>
    /\ RangesIdle
    /\ CoverIdle
    /\ CallIdle

\* A caller validates the dataset.
Validate ==
    /\ pc = "input"
    /\ issues' = heuristic_check_dataset(ds, CF_VERSION)
    /\ pc' = "validated"
    /\ UNCHANGED <<ds, dim, axis, out, rangeVars, coverVars, callVars>>

NextValidate == Validate

SpecValidate == InitValidate /\ [][NextValidate]_vars

\* Inputs of the coverage checks.

\* Longest time axis of the generated arrays.
MaxTime == 4

\* First kind: a regional grid of 3 longitudes and 2 latitudes; every slice along
\* the leading dimension has one of these sets of NaN cells <<j, i>>: none, the
\* first column, the first and the last column, all columns, the first column and
\* part of the second, part of the first column.
EdgeLon == <<0, 30, 60>>
EdgeLat == <<-30, 30>>

SlicePatterns ==
    {{},
     {<<0, 0>>, <<1, 0>>},
     {<<0, 0>>, <<1, 0>>, <<0, 2>>, <<1, 2>>},
     {<<0, 0>>, <<1, 0>>, <<0, 1>>, <<1, 1>>, <<0, 2>>, <<1, 2>>},
     {<<0, 0>>, <<1, 0>>, <<0, 1>>},
     {<<0, 0>>}}

\* The cells of the slices t = 0, 1, ... given as a list of sets of <<j, i>>.
CellsOfSlices(slices) ==
    UNION {{<<t - 1, c[1], c[2]>> : c \in slices[t]} : t \in DOMAIN slices}

\* A coordinate of the leading dimension counting from 2000, with the given attrs.
LeadCoord(size, attrs) == [values |-> [t \in 1..size |-> Num(1999 + t)], attrs |-> attrs]

EdgeArrays ==
    {DataArray(<<>>, 1, <<>>, EdgeLon, EdgeLat, CellsOfSlices(<<sl>>), {}, <<>>, <<>>) :
        sl \in SlicePatterns}
    \cup UNION {{DataArray(s_time, n, LeadCoord(n, <<>>), EdgeLon, EdgeLat,
                           CellsOfSlices(slices), {}, <<>>, <<>>) :
                    slices \in [1..n -> SlicePatterns]} : n \in 1..MaxTime}
    \cup {DataArray(lead[1], 2, lead[2], EdgeLon, EdgeLat, CellsOfSlices(slices), {}, <<>>, <<>>) :
            lead \in {<<s_time, <<>> >>,
                      <<s_t, LeadCoord(2, <<(<<s_standard_name, Str(s_time_padded)>>)>>)>>,
                      <<s_depth, LeadCoord(2, <<>>)>>},
            slices \in [1..2 -> SlicePatterns]}

\* The series of the example: 5 time slices, slices 1 and 2 fully masked.
ExampleSeries ==
    DataArray(s_time, 5, [values |-> [t \in 1..5 |-> Num(t - 1)], attrs |-> <<>>], EdgeLon, EdgeLat,
              CellsOfSlices(<<{}, SeqRange(<<0, 1>>) \X SeqRange(<<0, 1, 2>>),
                              SeqRange(<<0, 1>>) \X SeqRange(<<0, 1, 2>>), {}, {}>>),
              {}, <<>>, <<>>)

\* Second kind: 2 longitudes, 1 latitude and 2 time slices whose cells hold NaN,
\* 0.0 or 1.0, the variable declaring a _FillValue in attrs or in encoding.
FillDeclarations ==
    {[attrs |-> <<(<<s_FillValue, Num(0)>>)>>, encoding |-> <<>>],
     [attrs |-> <<>>, encoding |-> <<(<<s_FillValue, Num(0)>>)>>],
     [attrs |-> <<(<<s_FillValue, NaN>>)>>, encoding |-> <<>>]}

FillCells == {0, 1} \X {0} \X {0, 1}

FillArrays ==
    {DataArray(s_time, 2, <<>>, <<0, 30>>, <<0>>, nz[1], nz[2], f.attrs, f.encoding) :
        nz \in {x \in (SUBSET FillCells) \X (SUBSET FillCells) : x[1] \cap x[2] = {}},
        f \in FillDeclarations}

\* Third kind: coarse grids around the limits of a global grid, in the three
\* longitude conventions; no reference point lies midway between two grid values.
\* Without a time dimension any cells hold NaN; with two time slices the first is
\* empty or fully masked and the last holds NaN in any cells.
GlobalLons == {<<-150, 0, 150>>, <<-149, 0, 150>>, <<0, 150, 300>>, <<-170, 10, 190>>}
GlobalLats == {<<-59, 61>>, <<-59, 60>>, <<61, -59>>}

GridCells == {0, 1} \X {0, 1, 2}

GlobalArrays ==
    {DataArray(<<>>, 1, <<>>, lo, la, CellsOfSlices(<<sl>>), {}, <<>>, <<>>) :
        lo \in GlobalLons, la \in GlobalLats, sl \in SUBSET GridCells}
    \cup {DataArray(s_time, 2, <<>>, lo, la, CellsOfSlices(<<first, sl>>), {}, <<>>, <<>>) :
            lo \in GlobalLons, la \in GlobalLats, first \in {{}, GridCells}, sl \in SUBSET GridCells}

\* Fourth kind: the global 1-degree grids, longitudes -180..180 or 0..359 and
\* latitudes -90..90, without a time dimension, NaN in exactly the cells of the
\* 5 land reference points, and the same data rolled along longitude.
OneDegreeLons == {[k \in 1..361 |-> k - 181], [k \in 1..360 |-> k - 1]}
OneDegreeLat == [k \in 1..181 |-> k - 91]

PositionOf(values, v) == (CHOOSE k \in DOMAIN values : values[k] = v) - 1

LandMasked(lon_values) ==
    DataArray(<<>>, 1, <<>>, lon_values, OneDegreeLat,
              {<<0, PositionOf(OneDegreeLat, LAND_REFERENCE_POINTS[k][2]),
                 PositionOf(lon_values,
                            normalize_lon_for_grid(LAND_REFERENCE_POINTS[k][3],
                                                   longitude_convention(lon_values)))>> :
                  k \in DOMAIN LAND_REFERENCE_POINTS},
              {}, <<>>, <<>>)

\* DataArray.roll(lon=shift, roll_coords=False): the value at longitude position
\* i moves to position (i + shift) mod n, the coordinates stay.
roll(a, shift) ==
    LET n == Len(a.lon_values)
        Moved(cells) == {<<c[1], c[2], (c[3] + shift) % n>> : c \in cells}
    IN  [a EXCEPT !.nan = Moved(@), !.zero = Moved(@)]

RollOffsets == {0, 1, 20, 180, 360, 361, 722, -20}

OneDegreeArrays == {roll(LandMasked(lo), shift) : lo \in OneDegreeLons, shift \in RollOffsets}

TimeNames == {s_time, <<>>, s_depth}

InitCover ==
    /\ pc = "input"
    /\ da \in EdgeArrays \cup {ExampleSeries} \cup FillArrays \cup GlobalArrays \cup OneDegreeArrays
    /\ report = <<>>
    /\ RangesIdle
    /\ MetaIdle
    /\ CallIdle

\* check_ocean_cover on the variable: any preferred time name, each check
\* enabled or disabled.
OceanCover ==
    /\ pc = "input"
    /\ \E time_name \in TimeNames : \E check_edge_of_map \in BOOLEAN :
           \E check_land_ocean_offset \in BOOLEAN :
               report' = single_ocean_report(da, time_name, check_edge_of_map,
                                             check_land_ocean_offset)
    /\ pc' = "ocean_cover"
    /\ UNCHANGED <<da, rangeVars, metaVars, callVars>>

\* check_time_cover on the variable, any preferred time name.
TimeCover ==
    /\ pc = "input"
    /\ \E time_name \in TimeNames : report' = single_time_cover_report(da, time_name)
    /\ pc' = "time_cover"
    /\ UNCHANGED <<da, rangeVars, metaVars, callVars>>

NextCover == OceanCover \/ TimeCover

SpecCover == InitCover /\ [][NextCover]_vars

\* Inputs of the check entry points.  A dataset is given by its metadata, ds,
\* and its gridded data variable, da.  The datasets have a first coordinate lat
\* or time, in half of them a second coordinate depth that is no dimension, and
\* the data variable temp.
s_bad == <<"b", "a", "d">>
s_HTML_padded == <<" ", "H", "T", "M", "L", " ">>
s_not_real == <<"n", "o", "t", "-", "r", "e", "a", "l">>
s_cf_version == <<"1", ".", "1", "2">>
s_checker_failed ==
    <<"c", "h", "e", "c", "k", "e", "r", " ", "f", "a", "i", "l", "e", "d">>

CheckCoordArrays ==
    {[dtype |-> "float64", values |-> <<Num(0), Num(1)>>],
     [dtype |-> "str", values |-> <<Str(<<"a">>), Str(<<"b">>)>>],
     [dtype |-> "datetime64", values |-> <<Num(0), Num(1)>>]}

CheckCoordAttrs ==
    {<<>>,
     <<(<<s_Units, Str(s_degrees_north)>>)>>,
     <<(<<s_units, Str(s_days_since_2000)>>), (<<s_UNITS, Str(s_K)>>)>>,
     <<(<<s_UNITS, Str(s_days)>>), (<<s_Units, Str(s_K)>>), (<<s_Axis, Str(s_T)>>)>>,
     <<(<<s_FillValue, Num(0)>>)>>,
     <<(<<s_FillValue, NaN>>), (<<s_units, Str(s_days)>>)>>,
     <<(<<s_FillValue, NoneVal>>), (<<s_Standard_Name, Str(s_time)>>)>>}

CheckCoordEncodings ==
    {<<>>, <<(<<s_FillValue, Num(0)>>)>>, <<(<<s_FillValue, NoneVal>>)>>}

CheckVarAttrs ==
    {<<(<<s_Units, Str(s_K)>>)>>,
     <<(<<s_units, Str(s_K)>>), (<<s_Standard_Name, Str(s_temp)>>), (<<s_standard_name, Str(s_temp)>>)>>}

CheckSecondCoords ==
    {<<>>,
     <<(<<s_depth, Variable(<<s_time>>, "float64", <<Num(5), Num(5)>>,
                            <<(<<s_Axis, Str(s_T)>>)>>, <<(<<s_FillValue, Num(0)>>)>>)>>)>>}

CheckDatasets ==
    {Dataset(<<(<<s_time, 2>>), (<<s_lat, 2>>)>>,
             <<(<<dm, Variable(<<dm>>, a.dtype, a.values, at, en)>>)>> \o second,
             <<(<<s_temp, Variable(<<s_time, s_lat>>, "float64", <<>>, vat, <<>>)>>)>>,
             <<>>) :
        dm \in {s_lat, s_time}, a \in CheckCoordArrays, at \in CheckCoordAttrs,
        en \in CheckCoordEncodings, second \in CheckSecondCoords, vat \in CheckVarAttrs}

\* The dataset and the variables the argument checks are tried on.
CheckExample ==
    Dataset(<<(<<s_time, 2>>), (<<s_lat, 2>>)>>,
            <<(<<s_time, Variable(<<s_time>>, "int64", <<Num(0), Num(1)>>, <<>>, <<>>)>>)>>,
            <<(<<s_temp, Variable(<<s_time, s_lat>>, "float64", <<>>, <<>>, <<>>)>>)>>,
            <<>>)

\* Two series of 2 time steps: nothing missing, the first column missing.
CheckArrays ==
    {DataArray(s_time, 2, LeadCoord(2, <<>>), EdgeLon, EdgeLat, CellsOfSlices(<<sl, sl>>), {},
               <<>>, <<>>) : sl \in {{}, {<<0, 0>>, <<1, 0>>}}}

\* What the external checker does on a dataset: it raises, or it returns its
\* results, messages per category for the global scope and per variable.
CheckerOutcomes(d) ==
    {[raises |-> TRUE, type |-> "RuntimeError", message |-> s_checker_failed, results |-> <<>>],
     [raises |-> FALSE, type |-> "", message |-> <<>>,
      results |-> [global |-> <<>>, variables |-> <<>>]],
     [raises |-> FALSE, type |-> "", message |-> <<>>,
      results |-> [global |-> <<(<<"WARN", <<s_abc>>>>), (<<"ERROR", <<s_ghost>>>>),
                                (<<"INFO", <<s_abc, s_abc>>>>)>>,
                   variables |-> <<(<<s_temp, <<(<<"ERROR", <<s_abc>>>>)>>>>),
                                   (<<d.coords[1][1], <<(<<"WARN", <<s_abc, s_ghost>>>>),
                                                        (<<"FATAL", <<s_abc>>>>)>>>>),
                                   (<<s_ghost, <<(<<"INFO", <<s_abc>>>>)>>>>)>>]]}

ReportFormats ==
    {<<s_auto, "notebook">>, <<s_auto, "cli">>, <<s_auto, "plain">>, <<s_python, "plain">>,
     <<s_tables, "plain">>, <<s_HTML_padded, "plain">>, <<s_bad, "plain">>}

ConventionSelections ==
    {NoneVal, Str(s_cf), Str(s_ferret), Str(<<"C", "F", ",", " ", "F", "e", "r", "r", "e", "t">>),
     Str(s_cf \o <<",">> \o s_cf), Str(<<>>), Str(<<" ", ",", " ">>),
     Str(s_cf \o <<",">> \o s_not_real), List(<<s_ferret, s_cf>>), List(<<>>)}

EngineSelections ==
    {NoneVal, Str(s_auto), Str(s_cfcheck), Str(<<" ", "H", "e", "u", "r", "i", "s", "t", "i", "c">>),
     Str(s_bad)}

Args(format, html_file, conventions, engine, fallback, checker, table, families, options) ==
    [report_format |-> format[1], environment |-> format[2], report_html_file |-> html_file,
     conventions |-> conventions, engine |-> engine, fallback_to_heuristic |-> fallback,
     checker |-> checker, cf_version |-> s_cf_version, table |-> table,
     compliance |-> families[1], ocean_cover |-> families[2], time_cover |-> families[3],
     time_name |-> options[1], check_edge_of_map |-> options[2],
     check_land_ocean_offset |-> options[3]]

DefaultOptions == <<s_time, TRUE, TRUE>>
AllFamilies == <<TRUE, TRUE, TRUE>>

\* The calls tried on a dataset: every combination of arguments on the example,
\* the conventions and engines that give a report on the others.
ComplianceCalls(d) ==
    IF d = CheckExample
    THEN {Args(f, h, c, e, fb, ch, "ok", AllFamilies, DefaultOptions) :
            f \in ReportFormats, h \in BOOLEAN, c \in ConventionSelections, e \in EngineSelections,
            fb \in BOOLEAN, ch \in {x \in CheckerOutcomes(d) : x.raises \/ x.results.global = <<>>}}
    ELSE {Args(<<s_python, "plain">>, FALSE, c, ec[1], TRUE, ec[2], ec[3], AllFamilies, DefaultOptions) :
            c \in {NoneVal, Str(s_cf), Str(s_ferret)},
            ec \in {<<Str(s_heuristic), x, "none">> : x \in {y \in CheckerOutcomes(d) : y.raises}}
                   \cup {<<NoneVal, x, "unreadable">> : x \in CheckerOutcomes(d)}}

CoverCalls ==
    {Args(f, h, NoneVal, NoneVal, TRUE, [raises |-> FALSE], "none", AllFamilies, <<t, e, o>>) :
        f \in ReportFormats, h \in BOOLEAN, t \in {s_time, <<>>}, e \in BOOLEAN, o \in BOOLEAN}

\* A dataset whose only defect is a warning: a lat coordinate of numbers and
\* the data variable temp with the attribute Units.
CheckWarned ==
    Dataset(<<(<<s_time, 2>>), (<<s_lat, 2>>)>>,
            <<(<<s_lat, Variable(<<s_lat>>, "float64", <<Num(0), Num(1)>>, <<>>, <<>>)>>)>>,
            <<(<<s_temp, Variable(<<s_time, s_lat>>, "float64", <<>>,
                                  <<(<<s_Units, Str(s_K)>>)>>, <<>>)>>)>>,
            <<>>)

\* The calls of all(): every combination of arguments on the example, the
\* default arguments with any families on the dataset with a warning, the
\* external checker finding nothing.
AllCalls(d) ==
    IF d = CheckExample
    THEN {Args(f, h, c, e, fb, ch, "none", families, DefaultOptions) :
            f \in {<<s_python, "plain">>, <<s_auto, "notebook">>, <<s_bad, "plain">>}, h \in BOOLEAN,
            c \in {NoneVal, Str(s_ferret), Str(<<>>), Str(s_cf \o <<",">> \o s_not_real)},
            e \in {NoneVal, Str(s_heuristic), Str(s_bad)}, fb \in BOOLEAN,
            ch \in {x \in CheckerOutcomes(d) : x.raises \/ x.results.global # <<>>},
            families \in BOOLEAN \X BOOLEAN \X BOOLEAN}
    ELSE {Args(<<s_python, "plain">>, FALSE, NoneVal, NoneVal, TRUE, ch, "none", families,
               DefaultOptions) :
            ch \in {x \in CheckerOutcomes(d) : ~x.raises /\ x.results.global = <<>>},
            families \in BOOLEAN \X BOOLEAN \X BOOLEAN}

InitCheck ==
    /\ pc = "input"
    /\ \/ ds \in CheckDatasets /\ da \in {a \in CheckArrays : a.nan = {}}
       \/ ds = CheckExample /\ da \in CheckArrays
    /\ dim = <<>>
    /\ axis = "none"
    /\ out = EmptyDataset
    /\ issues = <<>>
    /\ report = <<>>
    /\ RangesIdle
    /\ CallIdle

\* What a call leaves behind: its arguments, the checkers it invoked and the
\* exception it raised.
Called(op, args, r) ==
    /\ call' = [op |-> op] @@ args
    /\ log' = r.log
    /\ raised' = r.type
    /\ pc' = IF r.raises THEN "raised" ELSE "returned"
    /\ UNCHANGED <<argv, exit_status>>

\* A caller runs check_dataset_compliant on the dataset.
Compliance ==
    /\ pc = "input"
    /\ \E args \in ComplianceCalls(ds) :
           LET r == check_dataset_compliant(ds, args)
           IN  Called("compliance", args, r) /\ issues' = r.value
    /\ UNCHANGED <<ds, dim, axis, out, rangeVars, coverVars>>

\* A caller runs check_ocean_cover on the dataset.
OceanCoverCall ==
    /\ pc = "input"
    /\ ds = CheckExample
    /\ \E args \in CoverCalls :
           LET r == check_ocean_cover(da, args)
           IN  Called("ocean_cover", args, r) /\ report' = r.value
    /\ UNCHANGED <<da, metaVars, rangeVars>>

\* A caller runs check_time_cover on the dataset.
TimeCoverCall ==
    /\ pc = "input"
    /\ ds = CheckExample
    /\ \E args \in CoverCalls :
           LET r == check_time_cover(da, args)
           IN  Called("time_cover", args, r) /\ report' = r.value
    /\ UNCHANGED <<da, metaVars, rangeVars>>

\* A caller runs the accessor's all() on the dataset.
All ==
    /\ pc = "input"
    /\ ds \in {CheckExample, CheckWarned}
    /\ \E args \in AllCalls(ds) :
           LET r == all(ds, da, args)
           IN  Called("all", args, r) /\ report' = r.value
    /\ UNCHANGED <<da, metaVars, rangeVars>>

NextCheck == Compliance \/ OceanCoverCall \/ TimeCoverCall \/ All

SpecCheck == InitCheck /\ [][NextCheck]_vars

\* Inputs of the coverage checks over several variables: datasets with the
\* coordinates lat and lon and one to three data variables.  A variable is a
\* grid over (time, lat, lon) or (lat, lon), a series over (time) or a profile
\* over (lat); the grids are clean, lack their first and last column in every
\* slice or, with a time dimension, lack their first slice.
s_sst == <<"s", "s", "t">>
s_sss == <<"s", "s", "s">>
s_mask == <<"m", "a", "s", "k">>

EdgeColumns == {<<0, 0>>, <<1, 0>>, <<0, 2>>, <<1, 2>>}
WholeSlice == {0, 1} \X {0, 1, 2}

CoverVariables ==
    {DataVar(<<s_time, s_lat, s_lon>>,
             DataArray(s_time, 2, LeadCoord(2, <<>>), EdgeLon, EdgeLat, CellsOfSlices(slices), {},
                       <<>>, <<>>)) :
        slices \in {<<{}, {}>>, <<EdgeColumns, EdgeColumns>>, <<WholeSlice, {}>>}}
    \cup {DataVar(<<s_lat, s_lon>>,
                  DataArray(<<>>, 1, <<>>, EdgeLon, EdgeLat, CellsOfSlices(<<sl>>), {}, <<>>, <<>>)) :
            sl \in {{}, EdgeColumns}}
    \cup {DataVar(<<s_time>>,
                  DataArray(s_time, 2, LeadCoord(2, <<>>), <<0>>, <<0>>, nan, {}, <<>>, <<>>)) :
            nan \in {{<<1, 0, 0>>}}}
    \cup {DataVar(<<s_lat>>, DataArray(<<>>, 1, <<>>, <<0>>, EdgeLat, {}, {}, <<>>, <<>>))}

CoverNameOrders ==
    {<<s_sst>>, <<s_sst, s_sss>>, <<s_sss, s_sst>>, <<s_sst, s_sss, s_mask>>,
     <<s_mask, s_sst, s_sss>>}

CoverDatasets ==
    UNION {{[i \in DOMAIN names |-> <<names[i], variables[i]>>] :
               variables \in [DOMAIN names -> CoverVariables]} : names \in CoverNameOrders}

\* The calls: var_name left out, naming the variable sst or mask or a variable
\* the dataset may lack, and one call with an unsupported report_format.
CoverAllCalls(with_options) ==
    {[var_name |-> v]
         @@ Args(<<s_python, "plain">>, FALSE, NoneVal, NoneVal, TRUE, [raises |-> FALSE], "none",
                 AllFamilies, <<t, e, FALSE>>) :
        v \in {<<>>, s_sst, s_mask}, t \in {s_time, <<>>},
        e \in IF with_options THEN BOOLEAN ELSE {TRUE}}
    \cup {[var_name |-> <<>>]
              @@ Args(<<s_bad, "plain">>, FALSE, NoneVal, NoneVal, TRUE, [raises |-> FALSE], "none",
                      AllFamilies, DefaultOptions)}

InitCoverAll ==
    /\ pc = "input"
    /\ da \in CoverDatasets
    /\ report = <<>>
    /\ RangesIdle
    /\ MetaIdle
    /\ CallIdle

\* A caller runs check_ocean_cover on the dataset.
OceanCoverAll ==
    /\ pc = "input"
    /\ \E args \in CoverAllCalls(TRUE) :
           LET r == check_ocean_cover_of_dataset(da, args)
           IN  Called("ocean_cover", args, r) /\ report' = r.value
    /\ UNCHANGED <<da, metaVars, rangeVars>>

\* A caller runs check_time_cover on the dataset.
TimeCoverAll ==
    /\ pc = "input"
    /\ \E args \in CoverAllCalls(FALSE) :
           LET r == check_time_cover_of_dataset(da, args)
           IN  Called("time_cover", args, r) /\ report' = r.value
    /\ UNCHANGED <<da, metaVars, rangeVars>>

NextCoverAll == OceanCoverAll \/ TimeCoverAll

SpecCoverAll == InitCoverAll /\ [][NextCoverAll]_vars

----------------------------------------------------------------------------
(* Command line: cli.py run_check.                                         *)

s_cmd_compliance == <<"c", "o", "m", "p", "l", "i", "a", "n", "c", "e">>
s_cmd_ocean_cover == <<"o", "c", "e", "a", "n", "-", "c", "o", "v", "e", "r">>
s_cmd_time_cover == <<"t", "i", "m", "e", "-", "c", "o", "v", "e", "r">>
s_cmd_all == <<"a", "l", "l">>
s_opt_save_report == <<"-", "-", "s", "a", "v", "e", "-", "r", "e", "p", "o", "r", "t">>
s_opt_conventions == <<"-", "-", "c", "o", "n", "v", "e", "n", "t", "i", "o", "n", "s">>
s_opt_lon_name == <<"-", "-", "l", "o", "n", "-", "n", "a", "m", "e">>
s_opt_lat_name == <<"-", "-", "l", "a", "t", "-", "n", "a", "m", "e">>
s_opt_time_name == <<"-", "-", "t", "i", "m", "e", "-", "n", "a", "m", "e">>
s_opt_engine == <<"-", "-", "e", "n", "g", "i", "n", "e">>
s_in_nc == <<"i", "n", ".", "n", "c">>
s_gone_nc == <<"g", "o", "n", "e", ".", "n", "c">>
s_cf_ferret == <<"c", "f", ",", "f", "e", "r", "r", "e", "t">>
s_engine == <<"e", "n", "g", "i", "n", "e">>
s_conventions == <<"c", "o", "n", "v", "e", "n", "t", "i", "o", "n", "s">>
s_lon_name == <<"l", "o", "n", "_", "n", "a", "m", "e">>
s_lat_name == <<"l", "a", "t", "_", "n", "a", "m", "e">>
s_time_name == <<"t", "i", "m", "e", "_", "n", "a", "m", "e">>
s_report_format == <<"r", "e", "p", "o", "r", "t", "_", "f", "o", "r", "m", "a", "t">>
s_report_html_file ==
    <<"r", "e", "p", "o", "r", "t", "_", "h", "t", "m", "l", "_", "f", "i", "l", "e">>
s_dot_nc == <<".", "n", "c">>
s_dot_html == <<".", "h", "t", "m", "l">>
s_report_suffix == <<"_", "r", "e", "p", "o", "r", "t">>

CHECK_MODES == {s_cmd_compliance, s_cmd_ocean_cover, s_cmd_time_cover, s_cmd_all}

\* _normalize_check_argv: a command line that starts with a file name is one
\* of the compliance subcommand.
normalize_check_argv(raw) ==
    IF raw = <<>> THEN raw
    ELSE IF raw[1] \in CHECK_MODES \/ startswith(raw[1], <<"-">>) THEN raw
    ELSE <<s_cmd_compliance>> \o raw

\* _build_check_parser: the options of a subcommand that take a value; every
\* subcommand has the flag --save-report and the positional fname.
ValueOptions(command) ==
    CASE command = s_cmd_compliance -> {s_opt_conventions}
      [] command = s_cmd_ocean_cover -> {s_opt_lon_name, s_opt_lat_name, s_opt_time_name}
      [] command = s_cmd_time_cover -> {s_opt_time_name}
      [] OTHER -> {s_opt_conventions, s_opt_lon_name, s_opt_lat_name, s_opt_time_name}

\* The files that exist.
ExistingFiles == {s_in_nc}

\* _existing_file: whether it accepts the path
existing_file(path) == path \in ExistingFiles

\* The subcommand's parser on the tokens from the i-th on: exit is set where
\* argparse calls parser.error (an option without its value, an unrecognized
\* argument).  Options are given by their full names.
RECURSIVE ParseFrom(_, _, _, _)
ParseFrom(tokens, i, command, parsed) ==
    IF i > Len(tokens) THEN parsed
    ELSE IF tokens[i] = s_opt_save_report
    THEN ParseFrom(tokens, i + 1, command, [parsed EXCEPT !.save_report = TRUE])
    ELSE IF tokens[i] \in ValueOptions(command)
    THEN IF i = Len(tokens) \/ startswith(tokens[i + 1], <<"-">>)
         THEN [parsed EXCEPT !.exit = TRUE]
         ELSE ParseFrom(tokens, i + 2, command,
                        [parsed EXCEPT !.options = DictSet(@, tokens[i], tokens[i + 1])])
    ELSE IF startswith(tokens[i], <<"-">>) THEN [parsed EXCEPT !.exit = TRUE]
    ELSE IF parsed.fname = <<>>
    THEN ParseFrom(tokens, i + 1, command, [parsed EXCEPT !.fname = tokens[i]])
    ELSE [parsed EXCEPT !.exit = TRUE]

\* parser.parse_args: the namespace, or exit where the parser ends the process
\* with SystemExit(2): no subcommand, an error of the subcommand's parser, no
\* file name or a file that does not exist.
parse_args(tokens) ==
    LET parsed == ParseFrom(tokens, 2, tokens[1],
                            [exit |-> FALSE, command |-> tokens[1], fname |-> <<>>,
                             save_report |-> FALSE, options |-> <<>>])
    IN  IF tokens = <<>> \/ tokens[1] \notin CHECK_MODES
        THEN [exit |-> TRUE, command |-> <<>>, fname |-> <<>>, save_report |-> FALSE,
              options |-> <<>>]
        ELSE IF parsed.fname = <<>> \/ ~existing_file(parsed.fname)
        THEN [parsed EXCEPT !.exit = TRUE]
        ELSE parsed

\* _default_report_html_path, the input file given by its name
default_report_html_path(name, mode) ==
    LET stem == IF endswith(lower(name), s_dot_nc) THEN SubSeq(name, 1, Len(name) - 3)
                ELSE name
        suffix == IF mode = s_cmd_compliance THEN s_report_suffix
                  ELSE <<"_">> \o [i \in DOMAIN mode |-> IF mode[i] = "-" THEN "_" ELSE mode[i]]
                           \o s_report_suffix
    IN  stem \o suffix \o s_dot_html

\* getattr(args, name, default)
OptionOr(parsed, option, default) ==
    IF DictHas(parsed.options, option) THEN Str(DictAt(parsed.options, option)) ELSE default

\* The check run_check invokes for the parsed command line, with its keyword
\* arguments.
invoked_check(parsed) ==
    LET report_format == <<s_report_format, Str(IF parsed.save_report THEN s_html ELSE s_tables)>>
        report_html_file ==
            <<s_report_html_file,
              IF parsed.save_report
              THEN Str(default_report_html_path(parsed.fname, parsed.command)) ELSE NoneVal>>
        conventions == <<s_conventions, OptionOr(parsed, s_opt_conventions, Str(s_cf_ferret))>>
        lon_name == <<s_lon_name, OptionOr(parsed, s_opt_lon_name, NoneVal)>>
        lat_name == <<s_lat_name, OptionOr(parsed, s_opt_lat_name, NoneVal)>>
        time_name == <<s_time_name, OptionOr(parsed, s_opt_time_name, Str(s_time))>>
    IN  CASE parsed.command = s_cmd_compliance ->
                [op |-> "check_dataset_compliant",
                 kwargs |-> <<conventions, report_format, report_html_file>>]
          [] parsed.command = s_cmd_ocean_cover ->
                [op |-> "check_ocean_cover",
                 kwargs |-> <<lon_name, lat_name, time_name, report_format, report_html_file>>]
          [] parsed.command = s_cmd_time_cover ->
                [op |-> "check_time_cover",
                 kwargs |-> <<time_name, report_format, report_html_file>>]
          [] OTHER ->
                [op |-> "_run_all_checks",
                 kwargs |-> <<conventions, lon_name, lat_name, time_name, report_format,
                              report_html_file>>]

\* Command lines: no subcommand or one, a file that exists or not, and up to
\* two options after or before the file name.
OptionGroups ==
    {<<s_opt_save_report>>, <<s_opt_conventions, s_cf>>, <<s_opt_time_name, s_t>>,
     <<s_opt_engine, s_heuristic>>, <<s_opt_lon_name, s_x>>, <<s_opt_conventions>>}

OptionLists ==
    {<<>>} \cup OptionGroups \cup {g \o h : <<g, h>> \in {gh \in OptionGroups \X OptionGroups : gh[1] # gh[2]}}

CommandLines ==
    {<<>>}
    \cup {command \o <<file>> \o options :
             command \in {<<>>} \cup {<<mode>> : mode \in CHECK_MODES},
             file \in {s_in_nc, s_gone_nc}, options \in OptionLists}
    \cup {command \o options \o <<file>> :
             command \in {<<>>} \cup {<<mode>> : mode \in CHECK_MODES},
             file \in {s_in_nc}, options \in OptionGroups}

InitCli ==
    /\ pc = "input"
    /\ argv \in CommandLines
    /\ call = <<>>
    /\ log = <<>>
    /\ raised = ""
    /\ exit_status = -1
    /\ RangesIdle
    /\ MetaIdle
    /\ CoverIdle

\* run_check on the command line: the parser ends the process with status 2,
\* or the check is invoked and run_check returns 0, or 1 when the check raised.
RunCheck ==
    /\ pc = "input"
    /\ LET parsed == parse_args(normalize_check_argv(argv))
       IN  IF parsed.exit
           THEN /\ pc' = "exited"
                /\ raised' = "SystemExit"
                /\ exit_status' = 2
                /\ call' = call
           ELSE \E check_raises \in BOOLEAN :
                    /\ pc' = "returned"
                    /\ raised' = raised
                    /\ exit_status' = IF check_raises THEN 1 ELSE 0
                    /\ call' = [raises |-> check_raises] @@ invoked_check(parsed)
    /\ UNCHANGED <<log, argv, rangeVars, metaVars, coverVars>>

NextCli == RunCheck

SpecCli == InitCli /\ [][NextCli]_vars

----------------------------------------------------------------------------
(* Claims about the range compressor.                                      *)

NoRepeats(s) == \A i, j \in DOMAIN s : s[i] = s[j] => i = j

Covered(rs) == UNION {rs[i][1]..rs[i][2] : i \in DOMAIN rs}

\* C1: for a duplicate-free list of non-negative integers, in any order, the
\* result is a list of closed ranges with start <= end, ascending and with a gap
\* of at least 2 between one range's end and the next range's start, covering
\* exactly the given indices; the empty list gives the empty list, and
\* {0,1,2,5,6,9} gives [(0,2),(5,6),(9,9)].
C1_RangesMaximalSortedExact ==
    (pc = "compressed" /\ NoRepeats(indices)) =>
        /\ \A i \in DOMAIN ranges : ranges[i][1] <= ranges[i][2]
        /\ \A i \in DOMAIN ranges : i > 1 => ranges[i][1] >= ranges[i - 1][2] + 2
        /\ Covered(ranges) = SeqRange(indices)
        /\ (indices = <<>> => ranges = <<>>)
        /\ (SeqRange(indices) = {0, 1, 2, 5, 6, 9}
                => ranges = <<(<<0, 2>>), (<<5, 6>>), (<<9, 9>>)>>)

\* A shuffled list with gaps was compressed into more than one range.
C1_Witness ==
    /\ pc = "compressed"
    /\ NoRepeats(indices)
    /\ Len(indices) >= 3
    /\ indices # sorted(indices)
    /\ Len(ranges) >= 2

\* C2: the result depends only on the set of indices: every list holding the
\* same set of integers as the one compressed, in another order or with repeated
\* elements, compresses to the identical list of ranges.
C2_ResultDependsOnSetOnly ==
    pc = "compressed" =>
        \A other \in SeqsUpTo(0..MaxIdx, MaxLen) :
            SeqRange(other) = SeqRange(indices) => indices_to_ranges(other) = ranges

----------------------------------------------------------------------------
(* Claims about the axis classifier.                                       *)

\* The three-step procedure of spec.md 4.2 over a name and the two attribute
\* texts (the empty text for an absent attribute or an absent coordinate).
AxisByPrecedence(name, has_coord, standard_name, units) ==
    IF name \in TIME_NAMES THEN "time"
    ELSE IF name \in LAT_NAMES THEN "lat"
    ELSE IF name \in LON_NAMES THEN "lon"
    ELSE IF ~has_coord THEN "none"
    ELSE IF standard_name = s_latitude \/ units = s_degrees_north THEN "lat"
    ELSE IF standard_name = s_longitude \/ units = s_degrees_east THEN "lon"
    ELSE IF standard_name = s_time THEN "time"
    ELSE "none"

AttrText(d, dm, key) ==
    IF DictHas(d.coords, dm) /\ DictHas(DictAt(d.coords, dm).attrs, key)
    THEN py_str(DictAt(DictAt(d.coords, dm).attrs, key))
    ELSE <<>>

\* C3 as stated: the name is lower-cased and looked up in the name sets, time
\* before lat before lon, whatever the attributes say; only without a name match
\* and with a coordinate do standard_name and units decide, lat before lon before
\* time, the attribute values being compared as they are written; otherwise the
\* dimension is unclassified.
C3_PrecedenceOnWrittenText ==
    pc = "guessed" =>
        axis = AxisByPrecedence(lower(dim), DictHas(ds.coords, dim),
                                AttrText(ds, dim, s_standard_name), AttrText(ds, dim, s_units))

\* C3 amended: the same precedence, the name and the standard_name and units
\* values each being compared after surrounding whitespace is trimmed and the
\* text is lower-cased.
C3_PrecedenceOnNormalizedText ==
    pc = "guessed" =>
        axis = AxisByPrecedence(lower(strip(dim)), DictHas(ds.coords, dim),
                                lower(strip(AttrText(ds, dim, s_standard_name))),
                                lower(strip(AttrText(ds, dim, s_units))))

\* A dimension named lat (in capitals) whose coordinate says standard_name = time
\* was classified lat, and one without a name match whose attributes name two
\* axes was classified by the attribute order.
C3_Witness ==
    /\ pc = "guessed"
    /\ \/ /\ lower(dim) = s_lat
          /\ AttrText(ds, dim, s_standard_name) = s_time
          /\ axis = "lat"
       \/ /\ dim = s_xcoord
          /\ AttrText(ds, dim, s_standard_name) = s_time
          /\ AttrText(ds, dim, s_units) = s_degrees_north
          /\ axis = "lat"

----------------------------------------------------------------------------
(* Claims about the fixer and the validator.                               *)

FindingsOf(found, name) == SeqRange(DictGetOr(found.coordinates, name, <<>>))

AllCoordinateFindings(found) ==
    UNION {SeqRange(found.coordinates[i][2]) : i \in DOMAIN found.coordinates}

ExpectedKeysOf(axis_type) ==
    CASE axis_type \in {"lat", "lon"} -> {s_standard_name, s_long_name, s_units, s_axis}
      [] axis_type = "time" -> {s_standard_name, s_axis}
      [] OTHER -> {}

\* C4: validating the dataset make_dataset_compliant returned gives, for no
\* dimension classified lat, lon or time, a WARN finding coord_attr:<key> on an
\* expected attribute key of its axis type, and no missing_dimension_coordinate
\* finding at all.
C4_FixedDatasetHasExpectedAttrs ==
    pc = "revalidated" =>
        /\ \A i \in DOMAIN out.sizes :
             LET dm == out.sizes[i][1]
             IN  \A f \in FindingsOf(issues, dm) :
                     ~(/\ f.severity = "WARN"
                       /\ f.item = "coord_attr"
                       /\ f.key \in ExpectedKeysOf(guess_axis_for_dim(out, dm)))
        /\ \A f \in AllCoordinateFindings(issues) : f.item # "missing_dimension_coordinate"

\* The dataset handed in had a classified dimension without a coordinate and a
\* coordinate with a wrong or missing expected attribute, and attribute keys in
\* the wrong case.
C4_Witness ==
    /\ pc = "revalidated"
    /\ LET before == AllCoordinateFindings(heuristic_check_dataset(ds, CF_VERSION))
       IN  /\ \E f \in before : f.item = "missing_dimension_coordinate"
           /\ \E f \in before : f.severity = "WARN" /\ f.item = "coord_attr" /\ f.key = s_units
    /\ \E i \in DOMAIN ds.coords : DictHas(ds.coords[i][2].attrs, s_UNITS)
    /\ \E i \in DOMAIN out.sizes : guess_axis_for_dim(out, out.sizes[i][1]) = "lat"

\* Whether an array element lies outside [minimum, maximum]; NaN lies nowhere.
Outside(v, minimum, maximum) ==
    CASE v.k = "num" -> v.n < minimum \/ v.n > maximum
      [] v.k = "inf" -> TRUE
      [] OTHER -> FALSE

OutsideCount(values, minimum, maximum) ==
    Cardinality({i \in DOMAIN values : Outside(values[i], minimum, maximum)})

\* The positions, in the findings filed for a coordinate, of the findings with
\* the given item.
PositionsOf(found, name, item) ==
    LET fs == DictGetOr(found.coordinates, name, <<>>)
    IN  {j \in DOMAIN fs : fs[j].item = item}

RangeFindingsAsCounted(name, values, minimum, maximum) ==
    LET fs == DictGetOr(issues.coordinates, name, <<>>)
        at == PositionsOf(issues, name, "coord_values_out_of_range")
        n == OutsideCount(values, minimum, maximum)
    IN  /\ Cardinality(at) = IF n > 0 THEN 1 ELSE 0
        /\ \A j \in at : fs[j].severity = "ERROR" /\ fs[j].count = n

\* C5: for a number coordinate of at least 2 elements classified lat (lon), there
\* is exactly one ERROR coord_values_out_of_range iff some value is below -90 or
\* above 90 (below -180 or above 360), its out_of_range_count being the number of
\* such values, a value on a limit being in range; a time axis gets no such
\* finding; latitudes [-91,-90,0,90,91] give the count 2.
C5_OutOfRangeCounted ==
    (pc = "validated" /\ ds \in RangeDatasets) =>
        LET name == ds.coords[1][1]
            values == ds.coords[1][2].values
            axis_type == guess_axis_for_dim(ds, name)
        IN  /\ axis_type = "lat" => RangeFindingsAsCounted(name, values, -90, 90)
            /\ axis_type = "lon" => RangeFindingsAsCounted(name, values, -180, 360)
            /\ axis_type = "time" => PositionsOf(issues, name, "coord_values_out_of_range") = {}
            /\ (axis_type = "lat" /\ values = ExampleLatitudes) =>
                   \E f \in FindingsOf(issues, name) :
                       f.item = "coord_values_out_of_range" /\ f.count = 2

\* The same for the coordinates all of whose values are numbers or NaN.
RangeFindingsOfFiniteValues ==
    (pc = "validated" /\ ds \in RangeDatasets
        /\ \A i \in DOMAIN ds.coords[1][2].values : ds.coords[1][2].values[i].k # "inf")
    => C5_OutOfRangeCounted

\* Every variable of the dataset with its attrs and the findings filed for it:
\* the data variables under issues["variables"], the coordinates under
\* issues["coordinates"].
VariablesWithFindings(d, found) ==
    {[name |-> d.data_vars[i][1], attrs |-> d.data_vars[i][2].attrs,
      findings |-> DictGetOr(found.variables, d.data_vars[i][1], <<>>)] : i \in DOMAIN d.data_vars}
    \cup {[name |-> d.coords[i][1], attrs |-> d.coords[i][2].attrs,
           findings |-> DictGetOr(found.coordinates, d.coords[i][1], <<>>)] : i \in DOMAIN d.coords}

\* CF syntax of a reference attribute: a str; for cell_measures a str of one or
\* more "<measure>: <variable>" pairs.
WellFormedReference(attr_name, value) ==
    /\ value.k = "str"
    /\ attr_name = s_cell_measures =>
          LET tokens == split(value.s)
          IN  /\ Len(tokens) >= 2
              /\ Len(tokens) % 2 = 0
              /\ \A i \in DOMAIN tokens : (i % 2 = 1) <=> (tokens[i][Len(tokens[i])] = ":")

\* The names a well-formed value refers to.
ReferencedNames(attr_name, value) ==
    LET tokens == split(value.s)
    IN  IF attr_name = s_cell_measures THEN {tokens[i] : i \in {j \in DOMAIN tokens : j % 2 = 0}}
        ELSE SeqRange(tokens)

Ascending(names) == \A i \in 1..(Len(names) - 1) : str_less(names[i], names[i + 1])

ReferenceFindingsAsStated(v, attr_name, names) ==
    LET at == {j \in DOMAIN v.findings :
                  /\ v.findings[j].item \in {"invalid_reference_attr", "missing_referenced_variable"}
                  /\ v.findings[j].key = attr_name}
        value == DictGet(v.attrs, attr_name)
    IN  IF value = NoneVal THEN at = {}
        ELSE IF ~WellFormedReference(attr_name, value)
        THEN /\ Cardinality(at) = 1
             /\ \A j \in at : v.findings[j].severity = "WARN"
                                  /\ v.findings[j].item = "invalid_reference_attr"
        ELSE LET absent == ReferencedNames(attr_name, value) \ names
             IN  /\ Cardinality(at) = IF absent = {} THEN 0 ELSE 1
                 /\ \A j \in at :
                        /\ v.findings[j].severity = "ERROR"
                        /\ v.findings[j].item = "missing_referenced_variable"
                        /\ SeqRange(v.findings[j].missing) = absent
                        /\ Ascending(v.findings[j].missing)

\* C10: for every data variable and coordinate and each of coordinates, bounds,
\* grid_mapping, ancillary_variables and cell_measures there is at most one
\* finding: WARN invalid_reference_attr:<attr> when the value does not parse, and
\* then no missing-reference finding; otherwise ERROR
\* missing_referenced_variable:<attr> iff a referenced name is no variable of the
\* dataset, listing exactly the missing names in ascending order without
\* repeats.  coordinates = 'lat lon ghost' gives one such ERROR listing ghost.
C10_ReferenceFindings ==
    pc = "validated" =>
        LET names == DictKeys(ds.coords) \cup DictKeys(ds.data_vars)
        IN  \A v \in VariablesWithFindings(ds, issues) :
                /\ \A i \in DOMAIN REFERENCE_ATTRS :
                       ReferenceFindingsAsStated(v, REFERENCE_ATTRS[i], names)
                /\ DictGet(v.attrs, s_coordinates) = Str(s_lat \o <<" ">> \o s_lon \o <<" ">> \o s_ghost)
                       => \E j \in DOMAIN v.findings :
                              /\ v.findings[j].severity = "ERROR"
                              /\ v.findings[j].item = "missing_referenced_variable"
                              /\ v.findings[j].key = s_coordinates
                              /\ v.findings[j].missing = <<s_ghost>>

\* A coordinate was validated whose cell_measures does not parse and whose
\* second reference attribute names an absent variable.
C10_Witness ==
    /\ pc = "validated"
    /\ \E v \in VariablesWithFindings(ds, issues) :
           /\ v.name = s_lat
           /\ Len(v.attrs) = 2
           /\ \E j \in DOMAIN v.findings : v.findings[j].item = "invalid_reference_attr"
           /\ \E j \in DOMAIN v.findings :
                  /\ v.findings[j].item = "missing_referenced_variable"
                  /\ v.findings[j].missing # <<>>

----------------------------------------------------------------------------
(* Claims about the coverage checks.                                       *)

\* A cell is missing: it is null, or it holds a _FillValue that attrs or
\* encoding declares.
DeclaredFillValues(a) ==
    {DictAt(source, s_FillValue) : source \in {x \in {a.attrs, a.encoding} : DictHas(x, s_FillValue)}}

IsMissing(a, c) == ValueAt(a, c) = NaN \/ ValueAt(a, c) \in DeclaredFillValues(a)

LonPositions(a) == 0..(Len(a.lon_values) - 1)
LatPositions(a) == 0..(Len(a.lat_values) - 1)
LeadPositions(a) == 0..(a.lead_size - 1)

\* The column at longitude position i is entirely missing at time index t.
ColumnMissingAt(a, i, t) == \A j \in LatPositions(a) : IsMissing(a, <<t, j, i>>)

MissingColumnsAt(a, t) == {i \in LonPositions(a) : ColumnMissingAt(a, i, t)}

\* The first, the last and, for more than 2 time steps, the middle time index.
SampledTimes(a) ==
    {0, a.lead_size - 1} \cup (IF a.lead_size > 2 THEN {a.lead_size \div 2} ELSE {})

\* C6: for a variable with a time dimension, every longitude position whose
\* column is entirely missing at the first, the last and (more than 2 time steps)
\* the middle time index is among the reported missing longitudes, and the
\* status is fail.
C6_PersistentColumnsReported ==
    (pc = "ocean_cover" /\ report.checks_enabled.edge_of_map /\ report.time_dim # <<>>) =>
        \A i \in LonPositions(da) :
            (\A t \in SampledTimes(da) : ColumnMissingAt(da, i, t)) =>
                /\ da.lon_values[i + 1] \in SeqRange(report.edge_of_map.missing_longitudes)
                /\ report.edge_of_map.status = "fail"

\* C7: every reported longitude is entirely missing at each sampled time index,
\* the last and the first among them; when the missing columns of the middle
\* sample differ from those of the first or last sample nothing is reported and
\* the status is pass; the status is fail iff the reported list is non-empty, and
\* missing_longitude_count is the length of that list.
C7_NoFalsePositive ==
    (pc = "ocean_cover" /\ report.checks_enabled.edge_of_map) =>
        LET e == report.edge_of_map
            reported == {i \in LonPositions(da) : da.lon_values[i + 1] \in SeqRange(e.missing_longitudes)}
            last == da.lead_size - 1
            middle == da.lead_size \div 2
        IN  /\ report.time_dim # <<>> =>
                /\ {0, last} \subseteq SeqRange(e.sampled_time_indices)
                /\ \A i \in reported : \A t \in SeqRange(e.sampled_time_indices) :
                       ColumnMissingAt(da, i, t)
                /\ (/\ da.lead_size > 2
                    /\ \/ MissingColumnsAt(da, middle) # MissingColumnsAt(da, 0)
                       \/ MissingColumnsAt(da, middle) # MissingColumnsAt(da, last))
                   => e.missing_longitudes = <<>> /\ e.status = "pass"
            /\ report.time_dim = <<>> =>
                   \A i \in reported : \A t \in LeadPositions(da) : ColumnMissingAt(da, i, t)
            /\ e.status = (IF e.missing_longitudes # <<>> THEN "fail" ELSE "pass")
            /\ e.missing_longitude_count = Len(e.missing_longitudes)

\* Two columns were reported for a series of 4 time steps whose unsampled slice
\* has other missing columns.
C7_Witness ==
    /\ pc = "ocean_cover"
    /\ report.checks_enabled.edge_of_map
    /\ da.lead_size = 4
    /\ report.time_dim = s_time
    /\ Len(report.edge_of_map.sampled_time_indices) = 3
    /\ Len(report.edge_of_map.missing_longitudes) = 2
    /\ MissingColumnsAt(da, 1) # MissingColumnsAt(da, 0)

\* The position of the grid value nearest to the target (the grids have no two
\* values equally near to a reference point).
NearestPosition(values, target) ==
    LET distances == {Distance(values[m], target) : m \in DOMAIN values}
        least == CHOOSE d \in distances : \A e \in distances : d <= e
    IN  (CHOOSE k \in DOMAIN values : Distance(values[k], target) = least) - 1

\* The cell of a reference point is missing: the nearest cell of the last time
\* slice, or without a time dimension of every slice along a leading dimension.
PointCellMissing(a, time_dim, point) ==
    LET j == NearestPosition(a.lat_values, point[2])
        i == NearestPosition(a.lon_values,
                             normalize_lon_for_grid(point[3], longitude_convention(a.lon_values)))
    IN  IF time_dim # <<>> THEN IsMissing(a, <<a.lead_size - 1, j, i>>)
        ELSE \A t \in LeadPositions(a) : IsMissing(a, <<t, j, i>>)

Labels(mismatches) == {mismatches[k].point : k \in DOMAIN mismatches}

\* The land/ocean offset check but for what it says about rolled data.
PointAlignmentAsStated ==
    LET p == report.land_ocean_offset
        global == /\ SeqMax(da.lon_values) - SeqMin(da.lon_values) >= 300
                  /\ SeqMax(da.lat_values) - SeqMin(da.lat_values) >= 120
        land == {LAND_REFERENCE_POINTS[k][1] : k \in {m \in DOMAIN LAND_REFERENCE_POINTS :
                    ~PointCellMissing(da, report.time_dim, LAND_REFERENCE_POINTS[m])}}
        ocean == {OCEAN_REFERENCE_POINTS[k][1] : k \in {m \in DOMAIN OCEAN_REFERENCE_POINTS :
                    PointCellMissing(da, report.time_dim, OCEAN_REFERENCE_POINTS[m])}}
    IN  /\ ~global => p.status = "skipped_non_global" /\ p.mismatch_count = 0
        /\ global =>
              /\ Len(LAND_REFERENCE_POINTS) = 5 /\ Len(OCEAN_REFERENCE_POINTS) = 5
              /\ Labels(p.land_mismatches) = land /\ Len(p.land_mismatches) = Cardinality(land)
              /\ Labels(p.ocean_mismatches) = ocean /\ Len(p.ocean_mismatches) = Cardinality(ocean)
              /\ p.mismatch_count = Cardinality(land) + Cardinality(ocean)
              /\ p.status = (IF p.mismatch_count > 0 THEN "fail" ELSE "pass")
        /\ \A lo \in OneDegreeLons :
               (da.lon_values = lo /\ da = LandMasked(lo)) => p.mismatch_count = 0

\* C8 as stated: the status is skipped_non_global with mismatch_count 0 unless the
\* longitude span is at least 300 and the latitude span at least 120; on a global
\* grid a land point is a mismatch iff its nearest cell (of the last time slice)
\* is not missing and an ocean point iff its cell is missing, mismatch_count is
\* their number and the status is fail iff it is positive; the 1-degree grid with
\* the 5 land cells masked has mismatch_count 0, and rolled along longitude by
\* any non-zero offset it has mismatch_count >= 1.
C8_RolledByAnyOffset ==
    (pc = "ocean_cover" /\ report.checks_enabled.land_ocean_offset) =>
        /\ PointAlignmentAsStated
        /\ \A lo \in OneDegreeLons : \A shift \in RollOffsets \ {0} :
               (da.lon_values = lo /\ da = roll(LandMasked(lo), shift))
                   => report.land_ocean_offset.mismatch_count >= 1

\* C8 amended: the same, the offset of the roll being no multiple of the number
\* of longitudes.
C8_RolledByPartOfCycle ==
    (pc = "ocean_cover" /\ report.checks_enabled.land_ocean_offset) =>
        /\ PointAlignmentAsStated
        /\ \A lo \in OneDegreeLons : \A shift \in RollOffsets :
               (shift % Len(lo) # 0 /\ da.lon_values = lo /\ da = roll(LandMasked(lo), shift))
                   => report.land_ocean_offset.mismatch_count >= 1

\* The 1-degree grid rolled by 20 positions failed the check on all 5 land points.
C8_Witness ==
    /\ pc = "ocean_cover"
    /\ report.checks_enabled.land_ocean_offset
    /\ \E lo \in OneDegreeLons : Len(lo) = 361 /\ da.lon_values = lo /\ da = roll(LandMasked(lo), 20)
    /\ report.land_ocean_offset.status = "fail"
    /\ Len(report.land_ocean_offset.land_mismatches) = 5

\* C9: without a time dimension the status is skipped_no_time and there are no
\* ranges; otherwise a time index is reported iff every element of its slice is
\* missing, the ranges are ascending, apart and cover exactly those indices,
\* missing_slice_count is their number, and the status is fail iff there is one.
\* The 5-slice series with slices 1 and 2 masked gives the one range 1..2.
C9_MissingSlicesReported ==
    pc = "time_cover" =>
        LET r == report.time_missing
            rs == r.missing_slice_ranges
            slices == {t \in LeadPositions(da) :
                          \A j \in LatPositions(da) : \A i \in LonPositions(da) : IsMissing(da, <<t, j, i>>)}
        IN  IF report.time_dim = <<>>
            THEN r.status = "skipped_no_time" /\ rs = <<>>
            ELSE /\ UNION {rs[k].start_index..rs[k].end_index : k \in DOMAIN rs} = slices
                 /\ \A k \in DOMAIN rs : rs[k].start_index <= rs[k].end_index
                 /\ \A k \in DOMAIN rs : k > 1 => rs[k].start_index >= rs[k - 1].end_index + 2
                 /\ r.missing_slice_count = Cardinality(slices)
                 /\ r.status = (IF slices # {} THEN "fail" ELSE "pass")
                 /\ (da.lead_size = 5 /\ da = ExampleSeries) =>
                        /\ Len(rs) = 1
                        /\ rs[1].start_index = 1 /\ rs[1].end_index = 2

\* The series of the example was checked.
C9_Witness ==
    /\ pc = "time_cover"
    /\ da.lead_size = 5
    /\ da = ExampleSeries
    /\ report.time_dim = s_time
    /\ report.time_missing.missing_slice_count = 2

\* The checks of a per-variable report, and those that are enabled.
ChecksOf(r) ==
    IF pc = "ocean_cover" THEN {r.edge_of_map, r.land_ocean_offset} ELSE {r.time_missing}

\* C11: in a per-variable coverage report ok is true iff no enabled check has
\* the status fail or error; a check the configuration disabled has enabled =
\* false and the status skipped, so with every check disabled ok is true; a
\* status that begins with skipped does not make ok false.
C11_OkIffNoEnabledCheckFails ==
    pc \in {"ocean_cover", "time_cover"} =>
        /\ report.ok = (\A c \in ChecksOf(report) : c.enabled => c.status \notin {"fail", "error"})
        /\ pc = "ocean_cover" =>
              /\ ~report.checks_enabled.edge_of_map =>
                     report.edge_of_map = [enabled |-> FALSE, status |-> "skipped"]
              /\ ~report.checks_enabled.land_ocean_offset =>
                     report.land_ocean_offset = [enabled |-> FALSE, status |-> "skipped"]
              /\ report.checks_enabled.edge_of_map => report.edge_of_map.enabled
              /\ report.checks_enabled.land_ocean_offset => report.land_ocean_offset.enabled
        /\ (\A c \in ChecksOf(report) : ~c.enabled) => report.ok
        /\ (\A c \in ChecksOf(report) :
               c.status \in {"skipped", "skipped_non_global", "skipped_no_time", "pass"}) => report.ok

\* A report with the edge check disabled and the offset check skipped on a
\* non-global grid is ok although the variable has a missing column, which fails
\* the edge check when it is enabled.
C11_Witness ==
    /\ pc = "ocean_cover"
    /\ ~report.checks_enabled.edge_of_map
    /\ report.land_ocean_offset.status = "skipped_non_global"
    /\ report.ok
    /\ edge_of_map_check(da, report.time_dim).status = "fail"

----------------------------------------------------------------------------
(* Claims about the check entry points.                                    *)

\* The report format a call resolves to: auto is html in a notebook, tables on
\* a command line and python otherwise; "" for an unsupported one.
ResolvedFormatOf(c) ==
    LET name == lower(strip(c.report_format))
    IN  IF name = s_auto
        THEN (CASE c.environment = "notebook" -> s_html
                [] c.environment = "cli" -> s_tables
                [] OTHER -> s_python)
        ELSE IF name \in {s_python, s_tables, s_html} THEN name
        ELSE <<>>

\* The names a convention selection lists: the parts between commas or the
\* list's elements, without surrounding blanks, in lower case, the empty ones
\* left out.
SelectedNames(c) ==
    LET parts == IF c.conventions.k = "list" THEN c.conventions.parts
                 ELSE split_on(c.conventions.s, ",", <<>>)
    IN  {lower(strip(parts[i])) : i \in DOMAIN parts} \ {<<>>}

UnsupportedOrEmptyConventions(c) ==
    c.conventions # NoneVal /\ (SelectedNames(c) = {} \/ ~(SelectedNames(c) \subseteq {s_cf, s_ferret}))

UnsupportedEngine(c) ==
    c.engine # NoneVal /\ lower(strip(c.engine.s)) \notin {s_auto, s_cfchecker, s_cfcheck, s_heuristic}

FormatError(c) ==
    ResolvedFormatOf(c) = <<>> \/ (c.report_html_file /\ ResolvedFormatOf(c) # s_html)

\* The configuration errors of a call as the claim lists them.
ConfigurationError(c) ==
    \/ FormatError(c)
    \/ c.op \in {"compliance", "all"} /\ (UnsupportedOrEmptyConventions(c) \/ UnsupportedEngine(c))
    \/ c.op = "all" /\ ~(c.compliance \/ c.ocean_cover \/ c.time_cover)

\* The same, all() looking at the conventions and the engine only when it runs
\* the compliance family.
ConfigurationErrorOfEnabled(c) ==
    \/ FormatError(c)
    \/ /\ c.op = "compliance" \/ (c.op = "all" /\ c.compliance)
       /\ UnsupportedOrEmptyConventions(c) \/ UnsupportedEngine(c)
    \/ c.op = "all" /\ ~(c.compliance \/ c.ocean_cover \/ c.time_cover)

\* The call raised ValueError before any check ran and returned no report.
RaisedValueErrorFirst ==
    /\ pc = "raised"
    /\ raised = "ValueError"
    /\ log = <<>>
    /\ issues = <<>> /\ report = <<>>

\* The one exception that is no configuration error: the external checker's
\* own, which check_dataset_compliant lets through when the caller turned the
\* fallback off.
CheckerErrorPropagated ==
    /\ pc = "raised"
    /\ raised = call.checker.type
    /\ call.checker.raises /\ ~call.fallback_to_heuristic
    /\ call.op = "compliance" \/ (call.op = "all" /\ call.compliance)
    /\ log = <<"cfchecker">>

Positions(found) ==
    UNION {{<<"coordinates", i, k>> : k \in DOMAIN found.coordinates[i][2]} :
              i \in DOMAIN found.coordinates}
    \cup UNION {{<<"variables", i, k>> : k \in DOMAIN found.variables[i][2]} :
                   i \in DOMAIN found.variables}
    \cup {<<"global", 0, k>> : k \in DOMAIN found.global}

FindingAt(found, p) ==
    IF p[1] = "global" THEN found.global[p[3]]
    ELSE IF p[1] = "coordinates" THEN found.coordinates[p[2]][2][p[3]]
    ELSE found.variables[p[2]][2][p[3]]

\* The number of findings of a severity anywhere in a report.
Recount(found, severity) ==
    Cardinality({p \in Positions(found) : FindingAt(found, p).severity = severity})

CountsEqualRecount(found) ==
    found.counts = [fatal |-> Recount(found, "FATAL"), error |-> Recount(found, "ERROR"),
                    warn |-> Recount(found, "WARN")]

CfSelected(c) == c.conventions = NoneVal \/ s_cf \in SelectedNames(c)
FerretSelected(c) == c.conventions = NoneVal \/ s_ferret \in SelectedNames(c)
EngineOf(c) == IF c.engine = NoneVal THEN s_auto ELSE lower(strip(c.engine.s))

\* check_dataset_compliant ended, returning or raising, on accepted arguments.
ComplianceRan ==
    /\ pc \in {"returned", "raised"}
    /\ call.op = "compliance"
    /\ ~ConfigurationErrorOfEnabled(call)

\* C15: with 'cf' selected, the engine auto or cfchecker and the external
\* checker raising, check_dataset_compliant returns with fallback_to_heuristic
\* the heuristic report with check_method 'heuristic', engine_status
\* 'unavailable', a checker_error holding the exception's type and message and
\* the note that the checker could not run, and without fallback_to_heuristic
\* it passes the checker's exception on and returns no report; with the engine
\* 'heuristic' the external checker is not invoked, engine_status is 'ok' and
\* there is no checker_error.
C15_EngineFallback ==
    ComplianceRan /\ CfSelected(call) =>
        /\ EngineOf(call) # s_heuristic /\ call.checker.raises /\ call.fallback_to_heuristic =>
               /\ pc = "returned"
               /\ log = <<"cfchecker", "heuristic">>
               /\ issues.engine = "heuristic" /\ issues.check_method = "heuristic"
               /\ issues.engine_status = "unavailable"
               /\ "checker_error" \in DOMAIN issues
               /\ issues.checker_error =
                      [type |-> call.checker.type, message |-> call.checker.message]
               /\ \E i \in DOMAIN issues.notes : issues.notes[i] = s_note_checker
        /\ EngineOf(call) # s_heuristic /\ call.checker.raises /\ ~call.fallback_to_heuristic =>
               /\ pc = "raised" /\ raised = call.checker.type
               /\ log = <<"cfchecker">>
               /\ issues = <<>>
        /\ EngineOf(call) = s_heuristic =>
               /\ pc = "returned"
               /\ log = <<"heuristic">>
               /\ issues.engine_status = "ok"
               /\ "checker_error" \notin DOMAIN issues

\* The checker was asked for by name, raised, and the heuristic report came
\* back with findings of its own.
C15_Witness ==
    /\ ComplianceRan /\ CfSelected(call)
    /\ EngineOf(call) \in {s_cfchecker, s_cfcheck}
    /\ call.checker.raises /\ call.fallback_to_heuristic
    /\ pc = "returned"
    /\ "checker_error" \in DOMAIN issues
    /\ issues.counts.warn > 0


\* The dict holds the key with a value other than None.
HoldsNonNull(dict, key) == \E i \in DOMAIN dict : dict[i][1] = key /\ dict[i][2] # NoneVal

HasFillValue(coord) ==
    HoldsNonNull(coord.attrs, s_FillValue) \/ HoldsNonNull(coord.encoding, s_FillValue)

\* The findings a report lists for a coordinate that have the given item.
CoordinateFindings(found, coord_name, item) ==
    LET findings == DictGetOr(found.coordinates, coord_name, <<>>)
    IN  {k \in DOMAIN findings : findings[k].item = item}

\* C16: in a report of check_dataset_compliant a coordinate has exactly one
\* finding coord_fillvalue_forbidden, FATAL and tagged 'ferret', if 'ferret' is
\* selected and the coordinate has a _FillValue other than None in its
\* attributes or its encoding, and none otherwise (so none when only 'cf' is
\* selected); when only 'ferret' is selected no checker is invoked and the
\* report has engine_status 'skipped' and check_method 'conventions_only'.
C16_FerretFillValue ==
    ComplianceRan /\ pc = "returned" =>
        /\ \A i \in DOMAIN ds.coords :
               LET coord_name == ds.coords[i][1]
                   findings == DictGetOr(issues.coordinates, coord_name, <<>>)
                   forbidden == CoordinateFindings(issues, coord_name, "coord_fillvalue_forbidden")
               IN  /\ Cardinality(forbidden) =
                          IF FerretSelected(call) /\ HasFillValue(ds.coords[i][2]) THEN 1 ELSE 0
                   /\ \A k \in forbidden :
                          findings[k].severity = "FATAL" /\ findings[k].convention = "ferret"
        /\ FerretSelected(call) /\ ~CfSelected(call) =>
               /\ log = <<>>
               /\ issues.engine_status = "skipped"
               /\ issues.check_method = "conventions_only"

\* With 'cf' and 'ferret' selected the external checker's report got the
\* finding for a coordinate whose _FillValue is in its encoding only, and
\* another coordinate without _FillValue got none.
C16_Witness ==
    /\ ComplianceRan /\ pc = "returned"
    /\ FerretSelected(call) /\ CfSelected(call)
    /\ log = <<"cfchecker">>
    /\ \E i \in DOMAIN ds.coords :
           /\ ~HoldsNonNull(ds.coords[i][2].attrs, s_FillValue)
           /\ HoldsNonNull(ds.coords[i][2].encoding, s_FillValue)
           /\ Cardinality(CoordinateFindings(issues, ds.coords[i][1],
                                             "coord_fillvalue_forbidden")) = 1
    /\ \E i \in DOMAIN ds.coords :
           /\ ~HasFillValue(ds.coords[i][2])
           /\ DictGetOr(issues.coordinates, ds.coords[i][1], <<>>) # <<>>


\* The pairs (actual key, canonical key) of an attribute dict: the actual key
\* equals the canonical one ignoring case but not exactly, and the canonical key
\* itself is absent.
MismatchPairs(attrs) ==
    {pair \in {<<attrs[i][1], canonical>> : i \in DOMAIN attrs,
                                           canonical \in SeqRange(CF_ATTR_CASE_KEYS)} :
        /\ lower(pair[1]) = pair[2]
        /\ pair[1] # pair[2]
        /\ ~\E j \in DOMAIN attrs : attrs[j][1] = pair[2]}

\* The attribute-case findings in a list of findings are, when expected, one
\* WARN tagged 'cf' per pair of the attribute dict, and none when not.
CaseFindingsMatch(findings, attrs, expected) ==
    LET case_findings == {k \in DOMAIN findings : findings[k].item = "attr_case_mismatch"}
    IN  /\ \A k \in case_findings :
               /\ findings[k].severity = "WARN" /\ findings[k].convention = "cf"
               /\ expected
               /\ <<findings[k].current.s, findings[k].expected.s>> \in MismatchPairs(attrs)
        /\ expected =>
               \A pair \in MismatchPairs(attrs) :
                   Cardinality({k \in case_findings :
                                   /\ findings[k].current = Str(pair[1])
                                   /\ findings[k].expected = Str(pair[2])}) = 1

\* C17: in a report of check_dataset_compliant with 'cf' selected, whichever
\* engine made the base report, every coordinate and data variable has for
\* every canonical key of the fixed list one WARN attr_case_mismatch tagged
\* 'cf', with current the actual key and expected the canonical key, for each
\* attribute whose name equals the canonical key ignoring case but not exactly,
\* if the canonical key itself is absent; there is no other attr_case_mismatch
\* finding, and none at all when 'cf' is not selected.
C17_AttrCaseMismatch ==
    ComplianceRan /\ pc = "returned" =>
        /\ \A i \in DOMAIN ds.coords :
               CaseFindingsMatch(DictGetOr(issues.coordinates, ds.coords[i][1], <<>>),
                                 ds.coords[i][2].attrs, CfSelected(call))
        /\ \A i \in DOMAIN ds.data_vars :
               CaseFindingsMatch(DictGetOr(issues.variables, ds.data_vars[i][1], <<>>),
                                 ds.data_vars[i][2].attrs, CfSelected(call))

\* The external checker made the base report; a coordinate with UNITS, Units and
\* Axis got three findings, and a variable that has both Standard_Name and
\* standard_name got none for standard_name.
C17_Witness ==
    /\ ComplianceRan /\ pc = "returned"
    /\ log = <<"cfchecker">>
    /\ \E i \in DOMAIN ds.coords :
           /\ Cardinality(MismatchPairs(ds.coords[i][2].attrs)) = 3
           /\ Cardinality(CoordinateFindings(issues, ds.coords[i][1], "attr_case_mismatch")) = 3
    /\ \E i \in DOMAIN ds.data_vars :
           /\ \E j \in DOMAIN ds.data_vars[i][2].attrs :
                  ds.data_vars[i][2].attrs[j][1] = s_Standard_Name
           /\ MismatchPairs(ds.data_vars[i][2].attrs) = {}


----------------------------------------------------------------------------
(* Claims about the heuristic validator's findings.                        *)

\* The convention names a Conventions attribute lists, separated by commas or
\* by blanks (the two forms the CF conventions allow).
ListedConventions(conventions) ==
    LET parts == split_on(py_str(conventions), ",", <<>>)
    IN  UNION {SeqRange(split(parts[i])) : i \in DOMAIN parts}

ConventionsFindingsOf(found) ==
    {k \in DOMAIN found.global : found.global[k].item = "Conventions"}

\* C18 as stated: the heuristic validator emits exactly one global WARN
\* finding with item 'Conventions' if the global attribute Conventions is
\* missing or does not include the exact expected token CF-1.12, and none if
\* the attribute includes the token, alone or alongside other convention names.
C18_ConventionsFinding ==
    pc = "validated" =>
        LET conventions == DictGet(ds.attrs, s_Conventions)
            expected == conventions = NoneVal \/ CF_VERSION \notin ListedConventions(conventions)
        IN  /\ Cardinality(ConventionsFindingsOf(issues)) = IF expected THEN 1 ELSE 0
            /\ \A k \in ConventionsFindingsOf(issues) : issues.global[k].severity = "WARN"


\* Python's == and < on the elements of a coordinate: NaN and NaT equal nothing
\* and are below and above nothing; -inf and +inf are the least and the
\* greatest number.
ElementsEqual(v, w) == v = w /\ v \notin {NaN, NaT}

ElementLess(v, w) ==
    \/ v.k = "num" /\ w.k = "num" /\ v.n < w.n
    \/ v = NegInf /\ (w.k = "num" \/ w = PosInf)
    \/ w = PosInf /\ v.k = "num"

HasEqualElements(values) ==
    \E i, j \in DOMAIN values : i < j /\ ElementsEqual(values[i], values[j])

StrictlyMonotonic(values) ==
    \/ \A i \in 1..(Len(values) - 1) : ElementLess(values[i], values[i + 1])
    \/ \A i \in 1..(Len(values) - 1) : ElementLess(values[i + 1], values[i])

\* The sequence checks apply: at least 2 elements of a number or date/time type
\* (the coordinates of the model are 1-D).
SequenceChecked(coord) ==
    /\ Len(coord.values) >= 2
    /\ is_numeric_dtype(coord.dtype) \/ coord.dtype \in {"datetime64", "timedelta64"}

SequenceFindingsMatch(found, coord_name, coord) ==
    /\ Cardinality(CoordinateFindings(found, coord_name, "coord_not_unique")) =
           IF SequenceChecked(coord) /\ HasEqualElements(coord.values) THEN 1 ELSE 0
    /\ Cardinality(CoordinateFindings(found, coord_name, "coord_not_monotonic")) =
           IF SequenceChecked(coord) /\ ~StrictlyMonotonic(coord.values) THEN 1 ELSE 0
    /\ ~SequenceChecked(coord) =>
           CoordinateFindings(found, coord_name, "coord_values_out_of_range") = {}
    /\ \A k \in CoordinateFindings(found, coord_name, "coord_not_unique")
                    \cup CoordinateFindings(found, coord_name, "coord_not_monotonic") :
           DictGet(found.coordinates, coord_name)[k].severity = "WARN"

\* C19 as stated: for a coordinate of a classified axis with at least 2 elements
\* of a number or date/time type, WARN coord_not_unique is emitted, once, if two
\* elements are equal, and WARN coord_not_monotonic, once, if the sequence is
\* neither strictly increasing nor strictly decreasing; for a coordinate with
\* fewer than 2 elements or another element type none of coord_not_unique,
\* coord_not_monotonic and coord_values_out_of_range is emitted.
C19_SequenceFindings ==
    pc = "validated" =>
        \A i \in DOMAIN ds.coords :
            ds.coords[i][1] \in {s_lat, s_lon, s_time} =>
                SequenceFindingsMatch(issues, ds.coords[i][1], ds.coords[i][2])

\* The same for the coordinates whose elements are all finite numbers or
\* instants.
SequenceFindingsOfFiniteValues ==
    pc = "validated" =>
        \A i \in DOMAIN ds.coords :
            /\ ds.coords[i][1] \in {s_lat, s_lon, s_time}
            /\ \A k \in DOMAIN ds.coords[i][2].values : ds.coords[i][2].values[k].k \in {"num", "str"}
            => SequenceFindingsMatch(issues, ds.coords[i][1], ds.coords[i][2])


\* The units a time coordinate states: those of its attributes, those of its
\* encoding when the attributes have none.
ExplicitUnits(coord) ==
    IF HoldsNonNull(coord.attrs, s_units) THEN DictGet(coord.attrs, s_units)
    ELSE DictGet(coord.encoding, s_units)

\* The findings coord_attr:<key> of a severity that a report lists for a
\* coordinate.
CoordAttrFindings(found, coord_name, key, severity) ==
    LET findings == DictGetOr(found.coordinates, coord_name, <<>>)
    IN  {k \in DOMAIN findings :
            /\ findings[k].item = "coord_attr"
            /\ findings[k].key = key
            /\ findings[k].severity = severity}

s_units_format == <<"u", "n", "i", "t", "s", "_", "f", "o", "r", "m", "a", "t">>

\* C20: the heuristic validator emits for a time coordinate one ERROR
\* coord_attr:units if it states no units and its values are no datetime64,
\* and none otherwise; one WARN coord_attr:units_format if it states a units
\* text that does not match '<unit> since <epoch>', the unit being second(s),
\* minute(s), hour(s), day(s), month(s) or year(s) in any letter case, and none
\* otherwise; never both; and neither of them for a lat or lon coordinate.
C20_TimeUnitsFindings ==
    pc = "validated" =>
        \A i \in DOMAIN ds.coords :
            LET coord_name == ds.coords[i][1]
                coord == ds.coords[i][2]
                units == ExplicitUnits(coord)
                missing == CoordAttrFindings(issues, coord_name, s_units, "ERROR")
                format == UNION {CoordAttrFindings(issues, coord_name, s_units_format, severity) :
                                    severity \in {"ERROR", "WARN", "FATAL", "INFO"}}
                axis_type == IF DictHas(ds.sizes, coord_name)
                             THEN guess_axis_for_dim(ds, coord_name) ELSE "none"
            IN  /\ axis_type = "time" =>
                       /\ Cardinality(missing) =
                              IF units = NoneVal /\ coord.dtype # "datetime64" THEN 1 ELSE 0
                       /\ Cardinality(format) =
                              IF units.k = "str" /\ ~TIME_UNITS_RE_match(units.s) THEN 1 ELSE 0
                       /\ format = CoordAttrFindings(issues, coord_name, s_units_format, "WARN")
                       /\ missing = {} \/ format = {}
                /\ axis_type \in {"lat", "lon"} => missing = {} /\ format = {}

\* A time coordinate of integers whose only units are in its encoding and read
\* 'days' got the one WARN coord_attr:units_format and no ERROR.
C20_Witness ==
    /\ pc = "validated"
    /\ \E i \in DOMAIN ds.coords :
           /\ ds.coords[i][1] = s_time
           /\ guess_axis_for_dim(ds, s_time) = "time"
           /\ ds.coords[i][2].dtype = "int64"
           /\ ~HoldsNonNull(ds.coords[i][2].attrs, s_units)
           /\ DictGet(ds.coords[i][2].encoding, s_units) = Str(s_days)
           /\ Cardinality(CoordAttrFindings(issues, s_time, s_units_format, "WARN")) = 1
           /\ CoordAttrFindings(issues, s_time, s_units, "ERROR") = {}


\* The findings of an item that a report lists for a data variable.
VariableFindings(found, var_name, item) ==
    LET findings == DictGetOr(found.variables, var_name, <<>>)
    IN  {k \in DOMAIN findings : findings[k].item = item}

VariableFindingsOfSeverity(found, var_name, item, severity) ==
    LET findings == DictGetOr(found.variables, var_name, <<>>)
    IN  {k \in DOMAIN findings : findings[k].item = item /\ findings[k].severity = severity}

\* A letter followed only by letters, digits or underscores.
IdentifierSyntax(name) ==
    /\ name # <<>>
    /\ name[1] \in Letters
    /\ \A i \in DOMAIN name : name[i] \in NameChars

Absent(attrs, key) == DictGet(attrs, key) = NoneVal

\* The four predicates of a data variable that do not look at its name.
VariableFindingsMatch(found, var_name, variable) ==
    /\ Cardinality(VariableFindingsOfSeverity(found, var_name, "missing_units_attr", "WARN")) =
           IF variable.dtype \in {"int64", "float64"} /\ Absent(variable.attrs, s_units)
           THEN 1 ELSE 0
    /\ Cardinality(VariableFindingsOfSeverity(found, var_name, "missing_standard_or_long_name", "WARN")) =
           IF Absent(variable.attrs, s_standard_name) /\ Absent(variable.attrs, s_long_name)
           THEN 1 ELSE 0
    /\ Cardinality(VariableFindingsOfSeverity(found, var_name, "object_dtype_variable", "ERROR")) =
           IF variable.dtype = "object" THEN 1 ELSE 0
    /\ Cardinality(VariableFindingsOfSeverity(found, var_name, "missing_units_for_standard_name", "ERROR")) =
           IF ~Absent(variable.attrs, s_standard_name) /\ Absent(variable.attrs, s_units)
           THEN 1 ELSE 0
    /\ \A item \in {"missing_units_attr", "missing_standard_or_long_name", "object_dtype_variable",
                    "missing_units_for_standard_name", "invalid_variable_name"} :
           Cardinality(VariableFindings(found, var_name, item)) <= 1
    /\ DictHas(found.variables, var_name) => DictAt(found.variables, var_name) # <<>>

\* C21: the heuristic validator lists for a data variable ERROR
\* invalid_variable_name iff its name is not a letter followed only by letters,
\* digits or underscores, WARN missing_units_attr iff its dtype is a number
\* dtype other than bool and it has no units, WARN
\* missing_standard_or_long_name iff it has neither standard_name nor
\* long_name, ERROR object_dtype_variable iff its dtype is object, ERROR
\* missing_units_for_standard_name iff it has a standard_name and no units;
\* each at most once, and a variable without findings has no entry.
C21_VariableFindings ==
    pc = "validated" =>
        \A i \in DOMAIN ds.data_vars :
            /\ VariableFindingsMatch(issues, ds.data_vars[i][1], ds.data_vars[i][2])
            /\ Cardinality(VariableFindingsOfSeverity(issues, ds.data_vars[i][1],
                                                       "invalid_variable_name", "ERROR")) =
                   IF IdentifierSyntax(ds.data_vars[i][1]) THEN 0 ELSE 1

\* The same with the name test the code makes: _VALID_NAME_RE.match, whose $
\* also matches before a final newline.
VariableFindingsOfMatchedNames ==
    pc = "validated" =>
        \A i \in DOMAIN ds.data_vars :
            /\ VariableFindingsMatch(issues, ds.data_vars[i][1], ds.data_vars[i][2])
            /\ Cardinality(VariableFindingsOfSeverity(issues, ds.data_vars[i][1],
                                                       "invalid_variable_name", "ERROR")) =
                   IF VALID_NAME_RE_match(ds.data_vars[i][1]) THEN 0 ELSE 1

\* Every violation of C21 is a name that ends with a newline after an
\* identifier.
VariableFindingsDifferOnlyOnFinalNewline ==
    pc = "validated" =>
        \A i \in DOMAIN ds.data_vars :
            LET name == ds.data_vars[i][1]
            IN  (Cardinality(VariableFindingsOfSeverity(issues, name, "invalid_variable_name", "ERROR")) #
                     IF IdentifierSyntax(name) THEN 0 ELSE 1)
                => /\ name[Len(name)] = "\n"
                   /\ IdentifierSyntax(SubSeq(name, 1, Len(name) - 1))


\* check_dataset_compliant returned a report for the default engine and the
\* default conventions.
DefaultComplianceReturned ==
    /\ ComplianceRan /\ pc = "returned"
    /\ call.engine = NoneVal /\ call.conventions = NoneVal
    /\ issues # <<>>

\* The two outcomes but for the engine field.
OutcomeOfDefaultEngine ==
    /\ issues.engine_status = "ok" <=> ~call.checker.raises
    /\ issues.engine_status = "ok" =>
           issues.check_method = "cfchecker" /\ "checker_error" \notin DOMAIN issues
    /\ issues.engine_status # "ok" =>
           issues.check_method = "heuristic" /\ "checker_error" \in DOMAIN issues

\* C22: with the default engine and the default conventions the report of
\* check_dataset_compliant has the engine 'cfchecker', both when the external
\* checker ran (engine_status 'ok', check_method 'cfchecker') and when the
\* heuristic fallback was used (engine_status not 'ok', check_method
\* 'heuristic', a checker_error).
C22_EngineFieldOfDefault ==
    DefaultComplianceReturned => issues.engine = "cfchecker" /\ OutcomeOfDefaultEngine

\* What the code does: the engine field names the validator that made the
\* report, 'heuristic' after a fallback.
EngineFieldNamesTheValidator ==
    DefaultComplianceReturned =>
        /\ OutcomeOfDefaultEngine
        /\ issues.engine = IF call.checker.raises THEN "heuristic" ELSE "cfchecker"


----------------------------------------------------------------------------
(* Claims about the fixer's result.                                        *)

\* The key is one of the attribute names whose case the fixer normalizes.
CaseNormalizedKey(key) ==
    \E i \in DOMAIN CF_ATTR_CASE_KEYS : lower(key) = lower(CF_ATTR_CASE_KEYS[i])

\* Two attribute dicts agree on every key that is not case-normalized.
SameOtherAttrs(before, after) ==
    \A key \in DictKeys(before) \cup DictKeys(after) :
        ~CaseNormalizedKey(key) =>
            /\ DictHas(before, key) /\ DictHas(after, key)
            /\ DictAt(before, key) = DictAt(after, key)

\* The coord_fillvalue_forbidden findings of a ferret convention check of the
\* dataset.
FerretFillValueFindings(d) ==
    LET found == apply_ferret_convention_checks(d, new_issues(CF_VERSION))
    IN  UNION {{<<found.coordinates[i][1], k>> : k \in
                   CoordinateFindings(found, found.coordinates[i][1], "coord_fillvalue_forbidden")} :
               i \in DOMAIN found.coordinates}

\* C23: no coordinate of the dataset make_dataset_compliant returns - a
\* dimension coordinate, another coordinate, one the fixer created - has a
\* _FillValue other than None in its attributes or its encoding, so that the
\* ferret convention check of the result lists no coord_fillvalue_forbidden;
\* the data variables keep their encoding and every attribute whose name is
\* not case-normalized, a _FillValue included.
C23_NoCoordinateFillValue ==
    pc \in {"fixed", "revalidated"} =>
        /\ \A i \in DOMAIN out.coords : ~HasFillValue(out.coords[i][2])
        /\ FerretFillValueFindings(out) = {}
        /\ DOMAIN out.data_vars = DOMAIN ds.data_vars
        /\ \A i \in DOMAIN ds.data_vars :
               /\ out.data_vars[i][1] = ds.data_vars[i][1]
               /\ out.data_vars[i][2].encoding = ds.data_vars[i][2].encoding
               /\ SameOtherAttrs(ds.data_vars[i][2].attrs, out.data_vars[i][2].attrs)

\* A dataset whose time coordinate and whose depth coordinate on the time
\* dimension had a _FillValue, the latter in its attributes and its encoding,
\* and whose lat coordinate the fixer created: the ferret check found them on
\* the input and the data variable kept its own _FillValue.
C23_Witness ==
    /\ pc = "fixed"
    /\ DictHas(ds.coords, s_time) /\ HasFillValue(DictAt(ds.coords, s_time))
    /\ DictHas(ds.coords, s_depth)
    /\ HoldsNonNull(DictAt(ds.coords, s_depth).attrs, s_FillValue)
    /\ HoldsNonNull(DictAt(ds.coords, s_depth).encoding, s_FillValue)
    /\ ~DictHas(ds.coords, s_lat) /\ DictHas(out.coords, s_lat)
    /\ Cardinality(FerretFillValueFindings(ds)) = 2
    /\ \E i \in DOMAIN out.data_vars : HoldsNonNull(out.data_vars[i][2].attrs, s_FillValue)


----------------------------------------------------------------------------
(* Claims about the coverage checks over several variables.                *)

HasLatLon(v) == s_lat \in SeqRange(v.dims) /\ s_lon \in SeqRange(v.dims)

\* The variables a call has to check, in dataset order: the one named, else
\* those with the lat and lon dimensions for check_ocean_cover and every one
\* for check_time_cover.
VariablesToCheck(data_vars, c) ==
    IF c.var_name # <<>> THEN SelectSeq(data_vars, LAMBDA entry : entry[1] = c.var_name)
    ELSE IF c.op = "ocean_cover" THEN SelectSeq(data_vars, LAMBDA entry : HasLatLon(entry[2]))
    ELSE data_vars

\* The report of one variable
PerVariableReport(v, c) ==
    IF c.op = "ocean_cover"
    THEN single_ocean_report(v.array, c.time_name, c.check_edge_of_map, c.check_land_ocean_offset)
    ELSE single_time_cover_report(v.array, c.time_name)

CoverReturned == pc = "returned" /\ call.op \in {"ocean_cover", "time_cover"}

\* C24: check_ocean_cover and check_time_cover return, when they check more
\* than one variable, the aggregate with mode 'all_variables', the names of
\* the checked variables in dataset order, their number, the per-variable
\* reports and ok the conjunction of their ok flags, and when they check one
\* variable its report itself; without var_name check_ocean_cover checks the
\* variables with both the lat and the lon dimension and check_time_cover
\* every data variable, one without time dimension getting the status
\* 'skipped_no_time'.
C24_AllVariablesReport ==
    CoverReturned =>
        LET checked == VariablesToCheck(da, call)
        IN  /\ checked # <<>>
            /\ Len(checked) = 1 => report = PerVariableReport(checked[1][2], call)
            /\ Len(checked) > 1 =>
                   /\ report.mode = "all_variables"
                   /\ report.checked_variables = [i \in DOMAIN checked |-> checked[i][1]]
                   /\ report.checked_variable_count = Len(report.reports)
                   /\ report.checked_variable_count = Len(checked)
                   /\ \A i \in DOMAIN checked :
                          report.reports[i] = <<checked[i][1], PerVariableReport(checked[i][2], call)>>
                   /\ report.ok = (\A i \in DOMAIN report.reports : report.reports[i][2].ok)
            /\ call.op = "time_cover" =>
                   \A i \in DOMAIN checked :
                       s_time \notin SeqRange(checked[i][2].dims) =>
                           PerVariableReport(checked[i][2], call).time_missing.status
                               = "skipped_no_time"

\* check_ocean_cover without var_name on three variables of which one lacks the
\* lon dimension: the two others were checked, one fails and one passes, and
\* the aggregate is not ok.
C24_Witness ==
    /\ CoverReturned /\ call.op = "ocean_cover" /\ call.var_name = <<>>
    /\ Len(da) = 3
    /\ "mode" \in DOMAIN report
    /\ report.mode = "all_variables"
    /\ report.checked_variable_count = 2
    /\ \E i, j \in DOMAIN report.reports : report.reports[i][2].ok /\ ~report.reports[j][2].ok
    /\ ~report.ok

\* check_time_cover without var_name on three variables: all were checked, one
\* without time dimension was skipped and one lacks a time slice.
TimeCoverOfAllVariables ==
    /\ CoverReturned /\ call.op = "time_cover" /\ call.var_name = <<>>
    /\ "mode" \in DOMAIN report
    /\ report.mode = "all_variables"
    /\ report.checked_variable_count = 3
    /\ \E i, j \in DOMAIN report.reports :
           /\ report.reports[i][2].time_missing.status = "skipped_no_time"
           /\ report.reports[j][2].time_missing.status = "fail"
    /\ ~report.ok


----------------------------------------------------------------------------
(* Claims about the accessor's all().                                      *)

\* The enabled check families of a call, in the order compliance, ocean_cover,
\* time_cover.
EnabledFamilies(c) ==
    (IF c.compliance THEN <<"compliance">> ELSE <<>>)
        \o (IF c.ocean_cover THEN <<"ocean_cover">> ELSE <<>>)
        \o (IF c.time_cover THEN <<"time_cover">> ELSE <<>>)

AllReturned == pc = "returned" /\ call.op = "all"

SummaryStatuses(r) == {r.check_summary[i].status : i \in DOMAIN r.check_summary}

\* C25: the report of the accessor's all() has in 'reports' and in
\* 'check_summary' exactly the enabled check families in the order compliance,
\* ocean_cover, time_cover, and only these were run; summary.checks_run is
\* their number, summary.failing_checks the number of entries with the status
\* 'fail', summary.overall_status 'fail' iff some entry is 'fail', else 'warn'
\* iff some entry is 'warn', else 'pass', and summary.overall_ok is true iff
\* the overall status is 'pass'.
C25_AllRunsEnabledChecks ==
    AllReturned =>
        /\ EnabledFamilies(call) # <<>>
        /\ [i \in DOMAIN report.reports |-> report.reports[i][1]] = EnabledFamilies(call)
        /\ [i \in DOMAIN report.check_summary |-> report.check_summary[i].check]
               = EnabledFamilies(call)
        /\ SelectSeq(log, LAMBDA name : name \in {"ocean_cover", "time_cover"})
               = SelectSeq(EnabledFamilies(call), LAMBDA name : name # "compliance")
        /\ (\E i \in DOMAIN log : log[i] \in {"cfchecker", "heuristic"}) => call.compliance
        /\ \A i, j \in DOMAIN log :
               log[i] \in {"cfchecker", "heuristic"} /\ log[j] \in {"ocean_cover", "time_cover"}
                   => i < j
        /\ report.summary.checks_run = Len(EnabledFamilies(call))
        /\ report.summary.failing_checks =
               Cardinality({i \in DOMAIN report.check_summary :
                               report.check_summary[i].status = "fail"})
        /\ report.summary.overall_status =
               IF "fail" \in SummaryStatuses(report) THEN "fail"
               ELSE IF "warn" \in SummaryStatuses(report) THEN "warn"
               ELSE "pass"
        /\ report.summary.overall_ok = (report.summary.overall_status = "pass")

\* all() ran two of the three families and came out with a warning.
C25_Witness ==
    /\ AllReturned
    /\ Len(EnabledFamilies(call)) = 2
    /\ report.summary.checks_run = 2
    /\ report.summary.overall_status = "warn"
    /\ ~report.summary.overall_ok

\* all() ran the three families and one of them failed.
AllFamiliesRunOneFailed ==
    /\ AllReturned
    /\ report.summary.checks_run = 3
    /\ report.summary.failing_checks = 1
    /\ report.summary.overall_status = "fail"


----------------------------------------------------------------------------
(* Claims about the command line.                                          *)

\* The command lines the claim is about: the compliance subcommand, named or
\* not, or the all subcommand, an existing file, and --engine <name> or not.
EngineCommandLine(line) ==
    \E command \in {<<>>, <<s_cmd_compliance>>, <<s_cmd_all>>} :
        \E options \in {<<>>, <<s_opt_engine, s_heuristic>>} :
            line = command \o <<s_in_nc>> \o options

\* The engine the command line asks for
RequestedEngine(line) ==
    IF \E i \in DOMAIN line : line[i] = s_opt_engine THEN s_heuristic ELSE s_auto

RunCheckEnded == pc \in {"returned", "exited"}

\* C26: run_check accepts '--engine <name>' for the compliance and the all
\* subcommands and invokes the check with engine=<name>, with engine='auto'
\* when the option is left out, and returns the exit status 0 in both cases
\* (the check not raising).
C26_EngineForwarded ==
    (RunCheckEnded /\ EngineCommandLine(argv) /\ (call # <<>> => ~call.raises)) =>
        /\ pc = "returned"
        /\ exit_status = 0
        /\ call # <<>>
        /\ DictGet(call.kwargs, s_engine) = Str(RequestedEngine(argv))

\* What the code does: no check is ever invoked with an engine keyword, and a
\* command line with --engine ends in the parser with the exit status 2 and no
\* check invoked; without the option run_check returns 0 after invoking the
\* check with the report format 'tables' and the conventions 'cf,ferret'.
EngineNeverForwarded ==
    RunCheckEnded =>
        /\ call # <<>> => ~DictHas(call.kwargs, s_engine)
        /\ (\E i \in DOMAIN argv : argv[i] = s_opt_engine) =>
               pc = "exited" /\ exit_status = 2 /\ call = <<>> /\ raised = "SystemExit"
        /\ argv \in {<<s_in_nc>>, <<s_cmd_compliance, s_in_nc>>} =>
               /\ pc = "returned" /\ exit_status = (IF call.raises THEN 1 ELSE 0)
               /\ call.op = "check_dataset_compliant"
               /\ DictGet(call.kwargs, s_report_format) = Str(s_tables)
               /\ DictGet(call.kwargs, s_conventions) = Str(s_cf_ferret)


\* C27: whenever the heuristic validator emits coord_not_unique for a
\* coordinate it emits coord_not_monotonic for the same coordinate too, each
\* once and as WARN, so the counts check_dataset_compliant computes from the
\* findings (_recompute_counts) have at least two WARN findings.
C27_DuplicateIsNotMonotonic ==
    pc = "validated" =>
        \A i \in DOMAIN ds.coords :
            LET coord_name == ds.coords[i][1]
                not_unique == CoordinateFindings(issues, coord_name, "coord_not_unique")
                not_monotonic == CoordinateFindings(issues, coord_name, "coord_not_monotonic")
            IN  not_unique # {} =>
                    /\ Cardinality(not_unique) = 1
                    /\ Cardinality(not_monotonic) = 1
                    /\ \A k \in not_unique \cup not_monotonic :
                           DictGet(issues.coordinates, coord_name)[k].severity = "WARN"
                    /\ recompute_counts(issues).counts.warn >= 2

\* A validated coordinate with a duplicated value; one whose duplicates are not
\* neighbours; and one whose duplicate shows once the non-finite elements are
\* left out.
C27_Witness ==
    /\ pc = "validated"
    /\ \E i \in DOMAIN ds.coords :
           /\ CoordinateFindings(issues, ds.coords[i][1], "coord_not_unique") # {}
           /\ ds.coords[i][2].values = <<Num(0), Num(1), Num(0)>>

DuplicateAmongFiniteElements ==
    /\ pc = "validated"
    /\ \E i \in DOMAIN ds.coords :
           /\ CoordinateFindings(issues, ds.coords[i][1], "coord_not_unique") # {}
           /\ ds.coords[i][2].values = <<Num(1), NaN, Num(1)>>


\* Two dicts with the same keys and values, in whatever order.
SameDict(a, b) == SeqRange(a) = SeqRange(b)

\* Two dicts of variables with the same names and, for each of them, the same
\* attributes, encoding and element type.
SameVariableMetadata(a, b) ==
    /\ DictKeys(a) = DictKeys(b)
    /\ \A name \in DictKeys(a) :
           /\ SameDict(DictAt(a, name).attrs, DictAt(b, name).attrs)
           /\ SameDict(DictAt(a, name).encoding, DictAt(b, name).encoding)
           /\ DictAt(a, name).dtype = DictAt(b, name).dtype

\* The same apart from the global attributes.
SameMetadataBelow(again, first) ==
    /\ SameVariableMetadata(again.coords, first.coords)
    /\ SameVariableMetadata(again.data_vars, first.data_vars)

SameMetadata(again, first) ==
    /\ SameDict(again.attrs, first.attrs)
    /\ SameMetadataBelow(again, first)

\* C28 as stated: make_dataset_compliant applied to its own result does not
\* raise and gives a dataset with the same global attributes, the same
\* coordinates and the same attributes, encoding and element type of every
\* variable and coordinate.
C28_FixIsIdempotent ==
    pc = "fixed" =>
        /\ ~make_dataset_compliant_raises(out)
        /\ SameMetadata(make_dataset_compliant_out(out), out)

\* The time coordinate of the result had its units in the encoding only, which
\* the fixer replaced.
TimeUnitsWereInEncoding(d) ==
    \E i \in DOMAIN d.coords :
        /\ DictHas(d.sizes, d.coords[i][1])
        /\ guess_axis_for_dim([d EXCEPT !.coords = NormalizeAll(@)], d.coords[i][1]) = "time"
        /\ DictGet(normalize_attr_key_case(d.coords[i][2].attrs, CF_ATTR_CASE_KEYS), s_units)
               = NoneVal
        /\ DictGet(d.coords[i][2].encoding, s_units) # NoneVal

\* What holds: the second application never raises and changes nothing but the
\* global attributes time_coverage_start and time_coverage_end, and these only
\* when the time coordinate had its units in its encoding alone.
FixIsIdempotentApartFromTimeCoverage ==
    pc = "fixed" =>
        LET again == make_dataset_compliant_out(out)
        IN  /\ ~make_dataset_compliant_raises(out)
            /\ SameMetadataBelow(again, out)
            /\ SameDict(DictPop(DictPop(again.attrs, s_time_coverage_start), s_time_coverage_end),
                        DictPop(DictPop(out.attrs, s_time_coverage_start), s_time_coverage_end))
            /\ ~TimeUnitsWereInEncoding(ds) => SameDict(again.attrs, out.attrs)

\* A second application that changes the time coverage of a result.
TimeCoverageChangedByRefix ==
    /\ pc = "fixed"
    /\ DictGet(out.attrs, s_time_coverage_start) = Str(iso_days_since_2000(0))
    /\ DictGet(make_dataset_compliant_out(out).attrs, s_time_coverage_start) = Str(<<"0">>)


\* A returned compliance report that the heuristic validator built, asked for
\* or reached by fallback, with 'cf' selected.
HeuristicCfReportReturned ==
    /\ ComplianceRan
    /\ pc = "returned"
    /\ call.report_format = s_python
    /\ CfSelected(call)
    /\ issues.check_method = "heuristic"

\* A coordinate of a dimension classified as time with numbers for values and
\* no units in its attributes or its encoding.
NumericTimeWithoutUnits(d, coord_name) ==
    /\ DictHas(d.sizes, coord_name)
    /\ guess_axis_for_dim(d, coord_name) = "time"
    /\ DictAt(d.coords, coord_name).dtype \in {"int64", "float64"}
    /\ DictGet(DictAt(d.coords, coord_name).attrs, s_units) = NoneVal
    /\ DictGet(DictAt(d.coords, coord_name).encoding, s_units) = NoneVal

ErrorFindings(found, coord_name) ==
    LET findings == DictGetOr(found.coordinates, coord_name, <<>>)
    IN  {k \in DOMAIN findings : findings[k].severity = "ERROR"}

\* C29 as stated: in a compliance report of the heuristic engine with 'cf'
\* selected, a time coordinate of numbers without units in attributes or
\* encoding has exactly one ERROR finding, and counts.error counts one error
\* for it besides the errors of other items.
C29_MissingTimeUnitsReportedOnce ==
    HeuristicCfReportReturned =>
        \A name \in DictKeys(ds.coords) :
            NumericTimeWithoutUnits(ds, name) =>
                /\ Cardinality(ErrorFindings(issues, name)) = 1
                /\ issues.counts.error =
                       1 + CountOf(AllFindings(issues), "ERROR")
                         - Cardinality(ErrorFindings(issues, name))

\* What the code does: the coordinate has two ERROR findings for the one
\* defect, coord_attr:units of the heuristic validator and
\* time_coord_units_missing of the 'cf' convention checks, and no other ERROR
\* finding, and the report counts both.
MissingTimeUnitsReportedTwice ==
    HeuristicCfReportReturned =>
        \A name \in DictKeys(ds.coords) :
            NumericTimeWithoutUnits(ds, name) =>
                /\ Cardinality(CoordAttrFindings(issues, name, s_units, "ERROR")) = 1
                /\ Cardinality(CoordinateFindings(issues, name, "time_coord_units_missing")) = 1
                /\ \A k \in CoordinateFindings(issues, name, "time_coord_units_missing") :
                       /\ DictGet(issues.coordinates, name)[k].severity = "ERROR"
                       /\ DictGet(issues.coordinates, name)[k].convention = "cf"
                /\ Cardinality(ErrorFindings(issues, name)) = 2
                /\ issues.counts.error >= 2

\* The report of the example dataset, whose time coordinate is [0, 1] without
\* units: two errors for it and one for the dimension lat without coordinate.
MissingTimeUnitsOfExample ==
    /\ HeuristicCfReportReturned
    /\ ds = CheckExample
    /\ NumericTimeWithoutUnits(ds, s_time)
    /\ Cardinality(ErrorFindings(issues, s_time)) = 2
    /\ issues.counts.error = 3


\* The input dataset with the attribute names of its coordinates in canonical
\* case (_normalize_attr_key_case with _CF_ATTR_CASE_KEYS).
WithCanonicalAttrNames(d) ==
    [d EXCEPT !.coords =
        [i \in DOMAIN @ |->
            <<@[i][1], [@[i][2] EXCEPT !.attrs = normalize_attr_key_case(@, CF_ATTR_CASE_KEYS)]>>]]

\* The axis type the validator infers for a dimension of the input dataset, and
\* the one the fixer uses, inferred after the attribute names are normalized.
ValidatorAxis(d, dm) == guess_axis_for_dim(d, dm)
FixerAxis(d, dm) == guess_axis_for_dim(WithCanonicalAttrNames(d), dm)

\* The fixer gave the dimension the expected attributes of an axis type.
HasExpectedAttrs(o, dm, axis_type) ==
    /\ DictHas(o.coords, dm)
    /\ SeqRange(expected_coord_attrs(axis_type)) \subseteq SeqRange(DictAt(o.coords, dm).attrs)

\* The fixer left the dimension alone: no coordinate created, and the
\* attributes of its coordinate are those of the input under their canonical
\* names, without _FillValue.
LeftUnclassified(d, o, dm) ==
    /\ DictHas(o.coords, dm) <=> DictHas(d.coords, dm)
    /\ DictHas(d.coords, dm) =>
           SameDict(DictAt(o.coords, dm).attrs,
                    DictPop(normalize_attr_key_case(DictAt(d.coords, dm).attrs, CF_ATTR_CASE_KEYS),
                            s_FillValue))

\* The attributes that classify a coordinate, standard_name and units, are
\* written in canonical case wherever the coordinate of the dimension has them.
ClassifyingAttrsCanonical(d, dm) ==
    DictHas(d.coords, dm) =>
        \A key \in DictKeys(DictAt(d.coords, dm).attrs) :
            lower(key) \in {s_standard_name, s_units} => key \in {s_standard_name, s_units}

\* C30 as stated: for every dimension the axis type the fixer uses equals the
\* one the validator infers for the input dataset, and a dimension the
\* validator cannot classify gets no expected attributes and no created
\* coordinate from the fixer.
C30_ValidatorAndFixerAgree ==
    pc = "fixed" =>
        \A dm \in DictKeys(ds.sizes) :
            /\ FixerAxis(ds, dm) = ValidatorAxis(ds, dm)
            /\ ValidatorAxis(ds, dm) = "none" => LeftUnclassified(ds, out, dm)

\* C30, amended: the fixer uses the axis type the validator infers for the
\* dataset with canonical attribute names; the two agree on the input dataset
\* where the dimension has no coordinate, is classified by its name, or has
\* standard_name and units in canonical case; a dimension the fixer classifies
\* has a coordinate with the expected attributes of its axis type, and one it
\* does not classify gets no expected attributes and no created coordinate.
C30_FixerClassifiesNormalizedAttrs ==
    pc = "fixed" =>
        \A dm \in DictKeys(ds.sizes) :
            /\ FixerAxis(ds, dm) # "none" => HasExpectedAttrs(out, dm, FixerAxis(ds, dm))
            /\ FixerAxis(ds, dm) = "none" => LeftUnclassified(ds, out, dm)
            /\ \/ ~DictHas(ds.coords, dm)
               \/ axis_from_names({normalize_name(dm)}) # "none"
               \/ ClassifyingAttrsCanonical(ds, dm)
               => FixerAxis(ds, dm) = ValidatorAxis(ds, dm)

\* A fixed dataset with a dimension that only the fixer classifies, by an
\* attribute written Standard_Name.
C30_Witness ==
    /\ pc = "fixed"
    /\ \E dm \in DictKeys(ds.sizes) :
           /\ ValidatorAxis(ds, dm) = "none"
           /\ FixerAxis(ds, dm) = "lat"
           /\ DictHas(DictAt(ds.coords, dm).attrs, s_Standard_Name)
           /\ HasExpectedAttrs(out, dm, "lat")

====
